---- MODULE Spec2Model ----
(***************************************************************************)
(* The SOP export paths of march-web-app: the step filter, the layout      *)
(* loops of generateSOPPdf, the sequential and concurrent variants of      *)
(* createAndDownloadSopPdf, the inline exportToPDF handlers, the symbol     *)
(* resolution of the print view, and the step form that feeds them; and    *)
(* the pages around them: the document store with the list, view, new and  *)
(* edit pages (save, delete, clone), the photo of a step (camera, upload)  *)
(* and the image relay.                                                    *)
(*                                                                         *)
(* Strings are sequences of one-character strings, so that trim and split  *)
(* are computed and not assumed.                                            *)
(***************************************************************************)
EXTENDS Integers, Sequences, FiniteSets, TLC

VARIABLES
    metadata,      \* the SOPMetadata held by the page (the fields the code branches on)
    steps,         \* the Step[] held by the page
    currentStep,   \* the step held in the edit form
    exporter,      \* the export routine that is running, "idle" when none
    pc,            \* its position: "idle" | "loop" | "table" | "done" | "failed"
    validSteps,    \* the list the running exporter lays out
    i,             \* loop index: number of steps already laid out
    yPosition,     \* the drawing cursor (yPosition / currentY)
    pageHeaders,   \* one entry per page of the document: what was drawn at its top
    rows,          \* the step rows drawn so far, in drawing order
    pending,       \* Promise.all variant: indices whose callback has not completed
    images,        \* addImage calls issued so far, in call order
    failedImages,  \* indices (in validSteps) whose image did not resolve
    saved,         \* documents handed to doc.save, oldest first
    drawErrors,    \* the drawing calls of the running export that threw
    formNr,        \* the clock digits printed as 'Formular nr', 0 when none
    store,         \* the 'sops' collection of the document store: a set of SOP records
    sops,          \* the SOP[] shown by the list page
    deleting,      \* deleteSOP calls awaiting deleteDoc, each with the sops it closed over
    saving,        \* the payload handed to addDoc / updateDoc and not yet settled
    uploading,     \* uploads awaiting uploadBytes, each with the currentStep it closed over
    isSaving,      \* busy flag of saveSOP / updateSOP
    isUploading,   \* busy flag of handleFileChange / capturePhoto
    exportingPdf,  \* busy flag of handleExportPDF
    showCamera,    \* the camera view is open
    isCameraReady, \* the video element shows a stream
    streamRef,     \* streamRef.current: a stream id, 0 when null
    tracks,        \* the camera streams that are running
    userMedia,     \* getUserMedia requests that have not settled
    route,         \* the page that is mounted
    sessionStorage,\* the item stored under 'cloneSOP'
    request,       \* image relay: the request being served
    response       \* image relay: the response returned

\* the state of the pages around the exporters
pageVars == << store, sops, deleting, saving, uploading, isSaving, isUploading,
               exportingPdf, showCamera, isCameraReady, streamRef, tracks, userMedia,
               route, sessionStorage, request, response >>

vars == << metadata, steps, currentStep, exporter, pc, validSteps, i, yPosition,
           pageHeaders, rows, pending, images, failedImages, saved,
           drawErrors, formNr, pageVars >>

\* null, undefined and "not there"
Null == [null |-> TRUE]

\* the useState / useRef initial values of the pages, an empty collection and
\* no request
PagesAtRest ==
    /\ store = {} /\ sops = << >> /\ deleting = {} /\ saving = Null /\ uploading = {}
    /\ isSaving = FALSE /\ isUploading = FALSE /\ exportingPdf = FALSE
    /\ showCamera = FALSE /\ isCameraReady = FALSE /\ streamRef = 0
    /\ tracks = {} /\ userMedia = {}
    /\ route = "/sop/new" /\ sessionStorage = Null
    /\ request = Null /\ response = Null

----------------------------------------------------------------------------
(* Bounds *)

MaxSteps == 3

MaxLong == 7

SpanTie == 12

MaxTitle == 2

MaxExports == 2

----------------------------------------------------------------------------
(* Strings *)

SP == " "

NL == "\n"

Max(a, b) == IF a >= b THEN a ELSE b

\* JavaScript truthiness of a string: the empty string is falsy
Truthy(s) == s # << >>

RECURSIVE TrimStart(_)
TrimStart(s) ==
    IF s = << >> THEN << >>
    ELSE IF Head(s) \in {SP, NL} THEN TrimStart(Tail(s)) ELSE s

RECURSIVE TrimEnd(_)
TrimEnd(s) ==
    IF s = << >> THEN << >>
    ELSE IF s[Len(s)] \in {SP, NL} THEN TrimEnd(SubSeq(s, 1, Len(s) - 1)) ELSE s

\* String.prototype.trim
Trim(s) == TrimEnd(TrimStart(s))

\* String.prototype.split('\n'): the segments between line breaks
RECURSIVE SplitFrom(_, _, _)
SplitFrom(s, cur, acc) ==
    IF s = << >> THEN Append(acc, cur)
    ELSE IF Head(s) = NL THEN SplitFrom(Tail(s), << >>, Append(acc, cur))
    ELSE SplitFrom(Tail(s), Append(cur, Head(s)), acc)

SplitLines(s) == SplitFrom(s, << >>, << >>)

\* step.description ? step.description.split('\n').filter(Boolean) : []
KeyPoints(step) ==
    IF Truthy(step.description)
    THEN SelectSeq(SplitLines(step.description), Truthy)
    ELSE << >>

----------------------------------------------------------------------------
(* Steps and metadata *)

SymbolTypes == {"quality", "correctness", "tip", "hazard"}

Unset == "unset"

Step(t, d, u, s) == [title |-> t, description |-> d, imageUrl |-> u, symbolType |-> s]

\* the blank step of the form
EmptyStep == Step(<< >>, << >>, << >>, Unset)

\* a description of n one-letter key points separated by line breaks
RECURSIVE Lines(_)
Lines(n) == IF n = 0 THEN << >>
            ELSE IF n = 1 THEN <<"x">>
            ELSE Lines(n - 1) \o <<NL, "x">>

Url == <<"u">>

TitleA == <<"a">>

RECURSIVE ListsUpTo(_, _)
ListsUpTo(S, n) ==
    IF n = 0 THEN { << >> }
    ELSE LET shorter == ListsUpTo(S, n - 1)
         IN shorter \cup { Append(l, s) : l \in { x \in shorter : Len(x) = n - 1 }, s \in S }

----------------------------------------------------------------------------
(* The names the exporters hand to doc.save                                 *)

\* SOPMetadata: the fields the exporters branch on or put into the file name
Meta(t, v) == [title |-> t, version |-> v]

VersionOne == <<"1", ".", "0">>

UpperCase == {"A", "B"}

Digits == {"0", "1", "2"}

LowerCase == {"a", "b", "u", "x", "y"}

\* /\s/
IsWhitespace(c) == c \in {SP, NL}

\* /[a-z0-9]/i
IsAlphaNumeric(c) == c \in LowerCase \cup UpperCase \cup Digits

LowerChar(c) == IF c = "A" THEN "a" ELSE IF c = "B" THEN "b" ELSE c

\* String.prototype.toLowerCase
ToLowerCase(s) == [j \in 1..Len(s) |-> LowerChar(s[j])]

\* title.replace(/[^a-z0-9]/gi, '_')
ReplaceNonAlphaNumeric(s) ==
    [j \in 1..Len(s) |-> IF IsAlphaNumeric(s[j]) THEN s[j] ELSE "_"]

\* title.replace(/\s+/g, '_'): every maximal run of whitespace becomes one '_'
RECURSIVE ReplaceWhitespaceRuns(_)
ReplaceWhitespaceRuns(s) ==
    IF s = << >> THEN << >>
    ELSE IF IsWhitespace(Head(s))
         THEN IF Len(s) > 1 /\ IsWhitespace(s[2])
              THEN ReplaceWhitespaceRuns(Tail(s))
              ELSE <<"_">> \o ReplaceWhitespaceRuns(Tail(s))
         ELSE <<Head(s)>> \o ReplaceWhitespaceRuns(Tail(s))

\* the arguments of doc.save: the characters derived from the title followed
\* by the literal parts of the template

\* `${metadata.title.replace(/\s+/g, '_')}_SOP.pdf`
SaveNameUnderscored(meta) == ReplaceWhitespaceRuns(meta.title) \o <<"_SOP.pdf">>

\* `${metadata.title.replace(/[^a-z0-9]/gi, '_').toLowerCase()}_sop.pdf`
SaveNameSlug(meta) == ToLowerCase(ReplaceNonAlphaNumeric(meta.title)) \o <<"_sop.pdf">>

\* `${metadata.title}_SOP_v${metadata.version}.pdf`
SaveNameVersioned(meta) == meta.title \o <<"_SOP_v">> \o meta.version \o <<".pdf">>

----------------------------------------------------------------------------
(* generateSOPPdf: the two hand-positioned layout loops                     *)

GenA == "generateSOPPdf/work-instruction"

GenC == "generateSOPPdf/standard-work"

\* variant A: yPosition = tableTop + 12 with tableTop = 86
FirstCursorA == 98

\* variant A: yPosition = newTableTop + 12 with newTableTop = 30
NextCursorA == 42

UsableBottomA == 180

\* variant C: subHeaderTop + 10 = ((25 + 15) + 15 + 10) + 10
FirstCursorC == 75

\* variant C: yPosition = 25, then yPosition += 10 below the repeated table header
NextCursorC == 35

UsableBottomC == 200

RowHeightC == 30

\* variant A: const rowHeight = Math.max(30, 20 + (steps.length * 10))
RowHeightA(n) == Max(30, 20 + (n * 10))

CalculatedRowHeightCapped(step, n) ==
    IF Len(KeyPoints(step)) > 4 THEN RowHeightA(n)
    ELSE Max(RowHeightA(n), Max(1, Len(KeyPoints(step))) * 25)

\* variant A: Math.max(rowHeight, Math.max(1, keyPoints.length) * 25)
CalculatedRowHeight(step, n) ==
    Max(RowHeightA(n), Max(1, Len(KeyPoints(step))) * 25)

RowHeight(variant, step, n) ==
    IF variant = GenA THEN CalculatedRowHeight(step, n) ELSE RowHeightC

FirstCursorStale(variant) ==
    IF saved = << >> \/ saved[Len(saved)].rows = << >>
    THEN IF variant = GenA THEN FirstCursorA ELSE FirstCursorC
    ELSE LET last == saved[Len(saved)].rows[Len(saved[Len(saved)].rows)]
         IN last.top + last.height

\* let yPosition = tableTop + 12 / subHeaderTop + 10: a local of each call
FirstCursor(variant) == IF variant = GenA THEN FirstCursorA ELSE FirstCursorC

ContinuedCursor(variant) == IF variant = GenA THEN NextCursorA ELSE NextCursorC

UsableBottom(variant) == IF variant = GenA THEN UsableBottomA ELSE UsableBottomC

NeedsNewPageGE(y, h, bottom) == y + h >= bottom

NeedsNewPageCursorOnly(y, h, bottom) == y > bottom

\* if (yPosition + calculatedRowHeight > 180) / if (yPosition + rowHeight > 200)
NeedsNewPage(y, h, bottom) == y + h > bottom

AdvanceCursorFixed(y, h) == y + 30

\* yPosition += calculatedRowHeight / yPosition += rowHeight
AdvanceCursor(y, h) == y + h

\* const symbolType = i % 3 (i is the 0-based loop index); variant C draws no symbol
IndexSymbol(index) ==
    IF index % 3 = 0 THEN "quality"
    ELSE IF index % 3 = 1 THEN "correctness"
    ELSE "tip"

\* the picture cell: variant A boxes at yPosition + 20 .. + 40, variant C at + 5 .. + 25
NoPicture == [kind |-> "none", page |-> 0, top |-> 0, bottom |-> 0, ref |-> << >>]

PictureBox(variant, step, page, top) ==
    IF ~Truthy(step.imageUrl) THEN NoPicture
    ELSE IF variant = GenA
         THEN [kind |-> "placeholder", page |-> page, top |-> top + 20, bottom |-> top + 40,
               ref |-> << >>]
         ELSE [kind |-> "placeholder", page |-> page, top |-> top + 5, bottom |-> top + 25,
               ref |-> << >>]

\* Math.floor(Math.random() * 2) + 1
RandomDigits == {1, 2}

\* variant A prints `${i+1}.${random digit}` above the picture box of a step
\* with an image; variant C prints no reference
WithReference(variant, row, rnd) ==
    [ j \in 1..Len(row) |->
        IF variant = GenA /\ row[j].pic.kind # "none"
        THEN [row[j] EXCEPT !.pic.ref = << row[j].step, rnd >>]
        ELSE row[j] ]

\* the text cells of a step's row at 0-based index: the step number, the
\* title, the numbered key points, the reason and the obligatory marker.
\* Variant A numbers the non-empty lines of the description ('1. Follow
\* procedure' when there is none), prints 'Ensure quality' and draws the blue
\* circle when i % 2 === 0; variant C prints fixed texts and no marker
PdfCells(variant, step, index) ==
    IF variant = GenA
    THEN [ number |-> index + 1,
           title |-> step.title,
           keyPoints |-> IF KeyPoints(step) = << >>
                         THEN << [no |-> 1, text |-> <<"Follow procedure">>] >>
                         ELSE [ j \in 1..Len(KeyPoints(step)) |->
                                  [no |-> j, text |-> KeyPoints(step)[j]] ],
           reason |-> "Ensure quality",
           obligatory |-> index % 2 = 0 ]
    ELSE [ number |-> index + 1,
           title |-> step.title,
           keyPoints |-> << [no |-> 0, text |-> <<"See step description">>] >>,
           reason |-> "For correct process execution",
           obligatory |-> FALSE ]

\* one iteration of the loop body for the step at 1-based position k:
\* where the row lands, whether a page was opened first, and the cursor afterwards
LayoutStepSkipOnBreak(variant, list, k, y, pages) ==
    LET step == list[k]
        h == RowHeight(variant, step, Len(list))
        brk == NeedsNewPage(y, h, UsableBottom(variant))
        top == IF brk THEN ContinuedCursor(variant) ELSE y
        page == IF brk THEN pages + 1 ELSE pages
    IN [ brk |-> brk,
         row |-> IF brk THEN << >>
                 ELSE << [step |-> k, title |-> step.title, page |-> page, top |-> top,
                          height |-> h,
                          symbol |-> IF variant = GenA THEN IndexSymbol(k - 1) ELSE "none",
                          pic |-> PictureBox(variant, step, page, top),
                     cells |-> PdfCells(variant, step, k - 1)] >>,
         cursor |-> IF brk THEN top ELSE AdvanceCursor(top, h) ]

LayoutStep(variant, list, k, y, pages) ==
    LET step == list[k]
        h == RowHeight(variant, step, Len(list))
        brk == NeedsNewPage(y, h, UsableBottom(variant))
        top == IF brk THEN ContinuedCursor(variant) ELSE y
        page == IF brk THEN pages + 1 ELSE pages
    IN [ brk |-> brk,
         row |-> << [step |-> k, title |-> step.title, page |-> page, top |-> top,
                     height |-> h,
                     symbol |-> IF variant = GenA THEN IndexSymbol(k - 1) ELSE "none",
                     pic |-> PictureBox(variant, step, page, top),
                     cells |-> PdfCells(variant, step, k - 1)] >>,
         cursor |-> AdvanceCursor(top, h) ]

\* what is drawn at the top of page 1, before the loop: variant A draws the
\* header rows, the legend and the table header; variant C the header, the
\* metadata table and the table header with its sub-header
FirstPageHeader(variant) ==
    IF variant = GenA THEN "header+legend+table-header"
    ELSE "header+metadata+table-header"

\* what the page-break branch draws after doc.addPage: the border (A only),
\* the '... (Continued)' title and the table header cells
ContinuedPageHeader(variant) == "title+table-header"

\* Date.now(): the digits printed as 'Formular nr' / 'SOP_...' on page 1
Clock == {1, 2}

Idle ==
    /\ exporter = "idle" /\ pc = "idle"

\* everything an export run owns, before the run
FreshRun ==
    /\ validSteps = << >> /\ i = 0 /\ yPosition = 0 /\ pageHeaders = << >>
    /\ rows = << >> /\ pending = {} /\ images = << >> /\ failedImages = {}
    /\ drawErrors = {} /\ formNr = 0

\* generateSOPPdf, lines 12-19 and the fixed header up to the loop:
\* throws before the document is created, or draws page 1's header block
GenStart(variant) ==
    /\ Idle
    /\ IF ~Truthy(metadata.title) \/ Len(steps) = 0
       THEN /\ exporter' = variant /\ pc' = "failed"
            /\ UNCHANGED << validSteps, i, yPosition, pageHeaders, formNr >>
       ELSE /\ exporter' = variant /\ pc' = "loop"
            /\ validSteps' = steps
            /\ i' = 0
            /\ yPosition' = FirstCursor(variant)
            /\ pageHeaders' = << FirstPageHeader(variant) >>
            /\ formNr' \in Clock
    /\ UNCHANGED << drawErrors, metadata, steps, currentStep, rows, pending, images,
                    failedImages, saved >>
    /\ UNCHANGED pageVars

GenAStart == GenStart(GenA)

GenCStart == GenStart(GenC)

\* one pass of for (let i = 0; i < steps.length; i++)
GenLoop ==
    /\ exporter \in {GenA, GenC} /\ pc = "loop" /\ i < Len(validSteps)
    /\ \E rnd \in RandomDigits :
       LET r == LayoutStep(exporter, validSteps, i + 1, yPosition, Len(pageHeaders))
       IN /\ pageHeaders' = IF r.brk
                            THEN Append(pageHeaders, ContinuedPageHeader(exporter))
                            ELSE pageHeaders
          /\ rows' = rows \o WithReference(exporter, r.row, rnd)
          /\ yPosition' = r.cursor
    /\ i' = i + 1
    /\ UNCHANGED << drawErrors, formNr, metadata, steps, currentStep, exporter, pc, validSteps, pending,
                    images, failedImages, saved >>
    /\ UNCHANGED pageVars

\* doc.save(...) after the loop
GenSave ==
    /\ exporter \in {GenA, GenC} /\ pc = "loop" /\ i = Len(validSteps)
    /\ pc' = "done"
    /\ saved' = Append(saved, [by |-> exporter, title |-> metadata.title,
                               filename |-> SaveNameUnderscored(metadata),
                               pages |-> Len(pageHeaders), rows |-> rows,
                               formNr |-> formNr])
    /\ UNCHANGED << drawErrors, formNr, metadata, steps, currentStep, exporter, validSteps, i, yPosition,
                    pageHeaders, rows, pending, images, failedImages >>
    /\ UNCHANGED pageVars

----------------------------------------------------------------------------
(* Layout specification: every step list the callers can hand over, within *)
(* the bounds: short lists of steps with 0, 1, 2, 4 or 6 key points, and    *)
(* long lists of plain steps.                                               *)

LayoutSteps ==
    { Step(TitleA, d, u, Unset) :
        d \in { << >>, Lines(1), <<"x", NL, NL, "y">>, Lines(4), Lines(6) },
        u \in { << >>, Url } }

PlainSteps == { Step(TitleA, Lines(1), << >>, Unset), Step(TitleA, << >>, Url, Unset) }

LayoutInputs == ListsUpTo(LayoutSteps, MaxSteps) \cup ListsUpTo(PlainSteps, MaxLong)

Init ==
    /\ metadata \in { Meta(t, VersionOne) : t \in { << >>, TitleA } }
    /\ steps \in LayoutInputs
    /\ currentStep = EmptyStep
    /\ exporter = "idle" /\ pc = "idle"
    /\ FreshRun
    /\ saved = << >>
    /\ PagesAtRest

Next == GenAStart \/ GenCStart \/ GenLoop \/ GenSave

Spec == Init /\ [][Next]_vars

----------------------------------------------------------------------------
(* The loop body taken from every cursor position in a window around the   *)
(* position at which a 30 mm row ends exactly on the usable bottom.  The    *)
(* fixed geometry of generateSOPPdf never puts the cursor there (variant A  *)
(* starts at 98 or 42 and advances by multiples of 5 against 180; variant C *)
(* runs 75, 105, ... and 35, 65, ... against 200), so the comparison is     *)
(* exercised here on the loop body itself.                                  *)

TieCursors(variant) ==
    (UsableBottom(variant) - 30 - SpanTie) .. (UsableBottom(variant) - 30 + SpanTie)

InitTie ==
    /\ metadata = Meta(TitleA, VersionOne)
    /\ steps \in ListsUpTo(PlainSteps, MaxSteps) \ { << >> }
    /\ currentStep = EmptyStep
    /\ exporter \in {GenA, GenC} /\ pc = "loop"
    /\ validSteps = steps
    /\ i = 0
    /\ yPosition \in TieCursors(exporter)
    /\ pageHeaders = << FirstPageHeader(exporter) >>
    /\ rows = << >> /\ pending = {} /\ images = << >> /\ failedImages = {}
    /\ drawErrors = {} /\ formNr \in Clock
    /\ saved = << >>
    /\ PagesAtRest

NextTie == GenLoop \/ GenSave

SpecTie == InitTie /\ [][NextTie]_vars

----------------------------------------------------------------------------
(* createAndDownloadSopPdf, the sequential variants: filter the steps, draw  *)
(* the title and the metadata table, then one block per step with the image *)
(* fetched through the proxy inside a try/catch                             *)

CadB == "createAndDownloadSopPdf/proxy"

Cad5 == "createAndDownloadSopPdf/proxy-guarded"

\* doc.lastAutoTable.finalY of the 7-row metadata table that starts at y = 30
\* (grid theme, font size 10: 7 rows of about 7.6 mm)
MetaTableFinalY == 83

Cad1 == "createAndDownloadSopPdf/placeholder-only"

\* createSimpleTable(doc, head, body, 30): one header row and six body rows
\* of cellHeight 10 below startY 30
SimpleTableFinalY == 100

\* currentY = 50 in catch (tableError)
TableErrorCurrentY == 50

\* currentY = 80 when doc.lastAutoTable is not available
FallbackCurrentY == 80

FilterTitled(list) == SelectSeq(list, LAMBDA step : Truthy(step.title))

\* steps.filter(step => step.title && step.title.trim())
FilterValid(list) ==
    SelectSeq(list, LAMBDA step : Truthy(step.title) /\ Truthy(Trim(step.title)))

\* doc.splitTextToSize(text, width).length for text whose lines fit the width
SplitTextToSizeLen(text) == Len(SplitLines(text))

\* try { getProxiedImage; addImage } catch { placeholder rectangle + text }
ImageOutcome(ok) == IF ok THEN "image" ELSE "placeholder"

\* one pass of the step loop at 1-based position k with image outcome ok
CadStep(list, k, y, pages, ok) ==
    LET step == list[k]
        brk1 == y > 240
        top == IF brk1 THEN 20 ELSE y
        page1 == IF brk1 THEN pages + 1 ELSE pages
        y1 == top + 10
        y2 == IF Truthy(step.description) /\ Truthy(Trim(step.description))
              THEN y1 + (SplitTextToSizeLen(step.description) * 5) + 5 ELSE y1
        y3 == IF step.symbolType # Unset THEN y2 + 7 ELSE y2
        hasImg == Truthy(step.imageUrl) /\ Truthy(Trim(step.imageUrl))
        brk2 == hasImg /\ y3 > 180
        imgTop == IF brk2 THEN 20 ELSE y3
        page2 == IF brk2 THEN page1 + 1 ELSE page1
        kind == IF hasImg THEN ImageOutcome(ok) ELSE "none"
        y4 == IF kind = "image" THEN imgTop + 80 + 15
              ELSE IF kind = "placeholder" THEN imgTop + 50
              ELSE y3
    IN [ newPages |-> page2 - pages,
         row |-> [step |-> k, title |-> step.title, page |-> page1, top |-> top,
                  height |-> (y1 - top) + (y3 - y1) + (y4 - imgTop) + 10,
                  symbol |-> IF step.symbolType # Unset THEN step.symbolType ELSE "none",
                  pic |-> IF kind = "image"
                          THEN [kind |-> "image", page |-> page2, top |-> imgTop,
                                bottom |-> imgTop + 80]
                          ELSE IF kind = "placeholder"
                          THEN [kind |-> "placeholder", page |-> page2, top |-> imgTop,
                                bottom |-> imgTop + 40]
                          ELSE NoPicture],
         cursor |-> y4 + 10 ]

RECURSIVE Repeat(_, _)
Repeat(x, n) == IF n = 0 THEN << >> ELSE Append(Repeat(x, n - 1), x)

\* lines 377-421: no precondition is tested; the filter runs, the title and the
\* metadata table are drawn, and the cursor is put below the table
CadBStart ==
    /\ Idle
    /\ exporter' = CadB /\ pc' = "loop"
    /\ validSteps' = FilterValid(steps)
    /\ i' = 0
    /\ pageHeaders' = << "title+metadata-table" >>
    /\ yPosition' = MetaTableFinalY + 15
    /\ UNCHANGED << drawErrors, formNr, metadata, steps, currentStep, rows, pending, images,
                    failedImages, saved >>
    /\ UNCHANGED pageVars

\* part_005 lines 269-325: the same, with the table and the cursor each in a try
Cad5Start ==
    /\ Idle
    /\ exporter' = Cad5 /\ pc' = "loop"
    /\ validSteps' = FilterValid(steps)
    /\ i' = 0
    /\ \E tableOk \in BOOLEAN :
          /\ pageHeaders' = << IF tableOk THEN "title+metadata-table" ELSE "title" >>
          /\ yPosition' = IF tableOk THEN MetaTableFinalY + 15 ELSE FallbackCurrentY
          /\ drawErrors' = IF tableOk THEN drawErrors ELSE drawErrors \cup {"autoTable"}
    /\ UNCHANGED << formNr, metadata, steps, currentStep, rows, pending, images,
                    failedImages, saved >>
    /\ UNCHANGED pageVars

\* one pass of for (let i = 0; i < validSteps.length; i++); the image of the
\* step resolves or fails
CadLoop ==
    /\ exporter \in {CadB, Cad5} /\ pc = "loop" /\ i < Len(validSteps)
    /\ \E outcome \in {"image", "fetch-rejected", "addImage-threw"} :
          LET ok == outcome = "image" IN
          /\ ok \/ Truthy(Trim(validSteps[i + 1].imageUrl))
          /\ drawErrors' = IF outcome = "addImage-threw"
                           THEN drawErrors \cup {"addImage"} ELSE drawErrors
          /\ LET r == CadStep(validSteps, i + 1, yPosition, Len(pageHeaders), ok)
             IN /\ pageHeaders' = pageHeaders \o Repeat("none", r.newPages)
                /\ rows' = Append(rows, r.row)
                /\ yPosition' = r.cursor
                /\ images' = IF r.row.pic.kind = "image"
                             THEN Append(images, [step |-> i + 1,
                                                  page |-> r.row.pic.page,
                                                  top |-> r.row.pic.top])
                             ELSE images
          /\ failedImages' = IF ok THEN failedImages ELSE failedImages \cup {i + 1}
    /\ i' = i + 1
    /\ UNCHANGED << formNr, metadata, steps, currentStep, exporter, pc, validSteps, pending, saved >>
    /\ UNCHANGED pageVars

\* doc.save(filename); return true
\* part_005 lines 52-134: the table inside a try (autoTable, or
\* createSimpleTable when doc.autoTable is not a function; currentY = 50 when
\* the table throws), then processSteps, which draws the placeholder for
\* every image
Cad1Start ==
    /\ Idle
    /\ exporter' = Cad1 /\ pc' = "loop"
    /\ validSteps' = FilterValid(steps)
    /\ i' = 0
    /\ \E table \in {"autoTable", "createSimpleTable", "threw"} :
          /\ pageHeaders' = << IF table = "threw" THEN "title"
                               ELSE "title+metadata-table" >>
          /\ yPosition' = IF table = "autoTable" THEN MetaTableFinalY + 15
                          ELSE IF table = "createSimpleTable" THEN SimpleTableFinalY + 15
                          ELSE TableErrorCurrentY
          /\ drawErrors' = IF table = "threw" THEN drawErrors \cup {"autoTable"}
                           ELSE drawErrors
    /\ UNCHANGED << formNr, metadata, steps, currentStep, rows, pending, images,
                    failedImages, saved >>
    /\ UNCHANGED pageVars

\* one pass of the loop of processSteps (part_005 lines 145-205)
Cad1Loop ==
    /\ exporter = Cad1 /\ pc = "loop" /\ i < Len(validSteps)
    /\ LET r == CadStep(validSteps, i + 1, yPosition, Len(pageHeaders), FALSE)
       IN /\ pageHeaders' = pageHeaders \o Repeat("none", r.newPages)
          /\ rows' = Append(rows, r.row)
          /\ yPosition' = r.cursor
    /\ i' = i + 1
    /\ UNCHANGED << drawErrors, formNr, metadata, steps, currentStep, exporter, pc,
                    validSteps, pending, images, failedImages, saved >>
    /\ UNCHANGED pageVars

\* a drawing call of the step loop outside the image try (doc.text, doc.addPage,
\* doc.splitTextToSize) throws: the function's catch alerts and returns false
CadThrow ==
    /\ exporter \in {CadB, Cad5, Cad1} /\ pc = "loop" /\ i < Len(validSteps)
    /\ pc' = "failed"
    /\ drawErrors' = drawErrors \cup {"text"}
    /\ UNCHANGED << formNr, metadata, steps, currentStep, exporter, validSteps, i,
                    yPosition, pageHeaders, rows, pending, images, failedImages, saved >>
    /\ UNCHANGED pageVars

CadSave ==
    /\ exporter \in {CadB, Cad5, Cad1} /\ pc = "loop" /\ i = Len(validSteps)
    /\ pc' = "done"
    /\ saved' = Append(saved, [by |-> exporter, title |-> metadata.title,
                               filename |-> SaveNameSlug(metadata),
                               pages |-> Len(pageHeaders), rows |-> rows])
    /\ UNCHANGED << drawErrors, formNr, metadata, steps, currentStep, exporter, validSteps, i, yPosition,
                    pageHeaders, rows, pending, images, failedImages >>
    /\ UNCHANGED pageVars

----------------------------------------------------------------------------
(* createAndDownloadSopPdf, the Promise.all variant (part_002 lines 155-272) *)

Cad2 == "createAndDownloadSopPdf/promise-all"

\* base64Image ? 'Yes' : 'No', with base64Image null after a failed load
ImageCell(ok) == IF ok THEN "Yes" ELSE "No"

\* every map callback runs up to its first await: steps with an imageUrl wait
\* for loadImageAsBase64, the others have returned their row
Cad2Start ==
    /\ Idle
    /\ exporter' = Cad2 /\ pc' = "loop"
    /\ validSteps' = steps
    /\ i' = 0
    /\ pageHeaders' = << "title+metadata-lines" >>
    /\ yPosition' = 0
    /\ pending' = { k \in 1..Len(steps) : Truthy(steps[k].imageUrl) }
    /\ UNCHANGED << drawErrors, formNr, metadata, steps, currentStep, rows, images, failedImages, saved >>
    /\ UNCHANGED pageVars

\* the load of step k settles; on success the callback calls
\* doc.addImage(..., 14, 100 + index * 50, 50, 40)
Cad2Complete ==
    /\ exporter = Cad2 /\ pc = "loop"
    /\ \E k \in pending, ok \in BOOLEAN :
          /\ pending' = pending \ {k}
          /\ images' = IF ok
                       THEN Append(images, [step |-> k, page |-> 1,
                                            top |-> 100 + ((k - 1) * 50)])
                       ELSE images
          /\ failedImages' = IF ok THEN failedImages ELSE failedImages \cup {k}
    /\ UNCHANGED << drawErrors, formNr, metadata, steps, currentStep, exporter, pc, validSteps, i, yPosition,
                    pageHeaders, rows, saved >>
    /\ UNCHANGED pageVars

\* Promise.all resolved: doc.autoTable({ startY: 220, body: stepsData }), the
\* page numbers and doc.save; the rows are positioned by autoTable
Cad2Table ==
    /\ exporter = Cad2 /\ pc = "loop" /\ pending = {}
    /\ pc' = "done"
    /\ i' = Len(validSteps)
    /\ rows' = [ k \in 1..Len(validSteps) |->
                  [step |-> k, title |-> validSteps[k].title, page |-> 1, top |-> 220,
                   height |-> 0, symbol |-> "none",
                   pic |-> [kind |-> ImageCell(Truthy(validSteps[k].imageUrl)
                                               /\ k \notin failedImages),
                            page |-> 1, top |-> 0, bottom |-> 0]] ]
    /\ saved' = Append(saved, [by |-> exporter, title |-> metadata.title,
                               filename |-> SaveNameVersioned(metadata),
                               pages |-> Len(pageHeaders), rows |-> rows'])
    /\ UNCHANGED << drawErrors, formNr, metadata, steps, currentStep, exporter, validSteps, yPosition,
                    pageHeaders, pending, images, failedImages >>
    /\ UNCHANGED pageVars

----------------------------------------------------------------------------
(* The inline exportToPDF handlers of the new-SOP page and of the view page *)

ExpNew == "NewSOPPage.exportToPDF"

ExpView == "ViewSOPPage.exportToPDF"

\* one pass of steps.forEach at 1-based position k; addImage succeeds or throws
InlineStep(list, k, y, pages, ok) ==
    LET step == list[k]
        brk == y > 250
        top == IF brk THEN 20 ELSE y
        page == IF brk THEN pages + 1 ELSE pages
        y1 == top + 10
        y2 == IF Truthy(step.description)
              THEN y1 + (SplitTextToSizeLen(step.description) * 7) ELSE y1
        hasImg == Truthy(step.imageUrl)
        y3 == IF ~hasImg THEN y2 ELSE IF ok THEN y2 + 90 ELSE y2 + 10 + 10
    IN [ brk |-> brk,
         row |-> [step |-> k, title |-> step.title, page |-> page, top |-> top,
                  height |-> (y3 + 20) - top, symbol |-> "none",
                  pic |-> IF ~hasImg THEN NoPicture
                          ELSE IF ok THEN [kind |-> "image", page |-> page, top |-> y2,
                                           bottom |-> y2 + 80]
                          ELSE [kind |-> "text", page |-> page, top |-> y2 + 10,
                                bottom |-> y2 + 10]],
         cursor |-> y3 + 20 ]

\* NewSOPPage.exportToPDF, lines 283-312: two alerts-and-return, then the header
ExpNewStart ==
    /\ Idle
    /\ exporter' = ExpNew
    /\ IF ~Truthy(metadata.title) \/ Len(steps) = 0
       THEN /\ pc' = "failed"
            /\ UNCHANGED << validSteps, i, yPosition, pageHeaders >>
       ELSE /\ pc' = "loop"
            /\ validSteps' = steps
            /\ i' = 0
            /\ yPosition' = 100
            /\ pageHeaders' = << "title+metadata-lines" >>
    /\ UNCHANGED << drawErrors, formNr, metadata, steps, currentStep, rows, pending, images,
                    failedImages, saved >>
    /\ UNCHANGED pageVars

\* ViewSOPPage.exportToPDF (part_008 lines 44-65): only if (!sop) return
ExpViewStart ==
    /\ Idle
    /\ exporter' = ExpView /\ pc' = "loop"
    /\ validSteps' = steps
    /\ i' = 0
    /\ yPosition' = 100
    /\ pageHeaders' = << "title+metadata-lines" >>
    /\ UNCHANGED << drawErrors, formNr, metadata, steps, currentStep, rows, pending, images,
                    failedImages, saved >>
    /\ UNCHANGED pageVars

ExpLoop ==
    /\ exporter \in {ExpNew, ExpView} /\ pc = "loop" /\ i < Len(validSteps)
    /\ \E ok \in BOOLEAN :
          /\ ok \/ Truthy(validSteps[i + 1].imageUrl)
          /\ LET r == InlineStep(validSteps, i + 1, yPosition, Len(pageHeaders), ok)
             IN /\ pageHeaders' = IF r.brk THEN Append(pageHeaders, "none")
                                  ELSE pageHeaders
                /\ rows' = Append(rows, r.row)
                /\ yPosition' = r.cursor
                /\ images' = IF r.row.pic.kind = "image"
                             THEN Append(images, [step |-> i + 1, page |-> r.row.pic.page,
                                                  top |-> r.row.pic.top])
                             ELSE images
          /\ failedImages' = IF ok THEN failedImages ELSE failedImages \cup {i + 1}
          /\ drawErrors' = IF ok THEN drawErrors ELSE drawErrors \cup {"addImage"}
    /\ i' = i + 1
    /\ UNCHANGED << formNr, metadata, steps, currentStep, exporter, pc, validSteps, pending, saved >>
    /\ UNCHANGED pageVars

ExpSave ==
    /\ exporter \in {ExpNew, ExpView} /\ pc = "loop" /\ i = Len(validSteps)
    /\ pc' = "done"
    /\ saved' = Append(saved, [by |-> exporter, title |-> metadata.title,
                               filename |-> SaveNameUnderscored(metadata),
                               pages |-> Len(pageHeaders), rows |-> rows])
    /\ UNCHANGED << drawErrors, formNr, metadata, steps, currentStep, exporter, validSteps, i, yPosition,
                    pageHeaders, rows, pending, images, failedImages >>
    /\ UNCHANGED pageVars

----------------------------------------------------------------------------
(* The print view and generatePdfDirect: one table row per step              *)

PdfView == "PDFViewPage"

GenDirect == "generatePdfDirect"

\* PDFViewPage.getStepSymbol(index): the step is not consulted
GetStepSymbol(step, index) == IndexSymbol(index)

\* generatePdfDirect: step.symbolType || 'quality'
DirectSymbol(step, index) ==
    IF step.symbolType # Unset THEN step.symbolType ELSE "quality"

\* the print view's row: '1. ' + (description || `description for ${title}`),
\* 'Ensure quality' and the blue circle in every row
ViewCells(step, index) ==
    [ number |-> index + 1,
      title |-> step.title,
      keyPoints |-> << [no |-> 1,
                        text |-> IF Truthy(step.description) THEN step.description
                                 ELSE <<"description for ">> \o step.title] >>,
      reason |-> "Ensure quality",
      obligatory |-> TRUE ]

\* generatePdfDirect's row: description || '', reasonWhy || 'Ensure quality'
\* (the steps here carry no reasonWhy), no obligatory column
DirectCells(step, index) ==
    [ number |-> index + 1,
      title |-> step.title,
      keyPoints |-> << [no |-> 0, text |-> step.description] >>,
      reason |-> "Ensure quality",
      obligatory |-> FALSE ]

TableRow(list, k, symbol, cells) ==
    [step |-> k, title |-> list[k].title, page |-> 1, top |-> 0, height |-> 0,
     symbol |-> symbol, cells |-> cells,
     pic |-> IF Truthy(list[k].imageUrl)
             THEN [kind |-> "image", page |-> 1, top |-> 0, bottom |-> 0]
             ELSE NoPicture]

\* PDFViewPage: steps.map((step, index) => <tr> ... getStepSymbol(index) ...)
PdfViewRender ==
    /\ Idle
    /\ exporter' = PdfView /\ pc' = "done"
    /\ validSteps' = steps
    /\ i' = Len(steps)
    /\ pageHeaders' = << "header+legend+table-header" >>
    /\ rows' = [ k \in 1..Len(steps) |->
                  TableRow(steps, k, GetStepSymbol(steps[k], k - 1),
                           ViewCells(steps[k], k - 1)) ]
    /\ UNCHANGED << drawErrors, formNr, metadata, steps, currentStep, yPosition, pending, images,
                    failedImages, saved >>
    /\ UNCHANGED pageVars

\* generatePdfDirect (part_002 lines 27-72): steps.map into the autoTable body
GenDirectRun ==
    /\ Idle
    /\ exporter' = GenDirect /\ pc' = "done"
    /\ validSteps' = steps
    /\ i' = Len(steps)
    /\ pageHeaders' = << "title+metadata-lines" >>
    /\ rows' = [ k \in 1..Len(steps) |->
                  TableRow(steps, k, DirectSymbol(steps[k], k - 1),
                           DirectCells(steps[k], k - 1)) ]
    /\ saved' = Append(saved, [by |-> GenDirect, title |-> metadata.title,
                               filename |-> SaveNameUnderscored(metadata),
                               pages |-> 1, rows |-> rows'])
    /\ UNCHANGED << drawErrors, formNr, metadata, steps, currentStep, yPosition, pending, images,
                    failedImages >>
    /\ UNCHANGED pageVars

----------------------------------------------------------------------------
(* The step form of the new-SOP and edit-SOP pages                          *)

Titles == { << >>, <<SP>>, <<"a">>, <<SP, "a">>, <<"b", SP>> }

\* onChange of the SOP title input
SetTitle ==
    /\ Idle
    /\ \E t \in { << >>, TitleA } :
          /\ metadata.title # t
          /\ metadata' = [metadata EXCEPT !.title = t]
    /\ UNCHANGED << drawErrors, formNr, steps, currentStep, exporter, pc, validSteps, i, yPosition,
                    pageHeaders, rows, pending, images, failedImages, saved >>
    /\ UNCHANGED pageVars

\* onChange of the step title input: setCurrentStep({ ...currentStep, title })
TypeStepTitle ==
    /\ Idle
    /\ \E t \in Titles :
          /\ currentStep.title # t
          /\ currentStep' = [currentStep EXCEPT !.title = t]
    /\ UNCHANGED << drawErrors, formNr, metadata, steps, exporter, pc, validSteps, i, yPosition,
                    pageHeaders, rows, pending, images, failedImages, saved >>
    /\ UNCHANGED pageVars

\* addStep: refuses only a falsy title
AddStep ==
    /\ Idle
    /\ Len(steps) < MaxSteps
    /\ IF ~Truthy(currentStep.title)
       THEN UNCHANGED << steps, currentStep >>
       ELSE /\ steps' = Append(steps, currentStep)
            /\ currentStep' = EmptyStep
    /\ UNCHANGED << drawErrors, formNr, metadata, exporter, pc, validSteps, i, yPosition,
                    pageHeaders, rows, pending, images, failedImages, saved >>
    /\ UNCHANGED pageVars

\* editStep(index): the step moves from the list into the form
EditStep ==
    /\ Idle
    /\ \E index \in 1..Len(steps) :
          /\ currentStep' = steps[index]
          /\ steps' = SubSeq(steps, 1, index - 1) \o SubSeq(steps, index + 1, Len(steps))
    /\ UNCHANGED << drawErrors, formNr, metadata, exporter, pc, validSteps, i, yPosition,
                    pageHeaders, rows, pending, images, failedImages, saved >>
    /\ UNCHANGED pageVars

----------------------------------------------------------------------------
(* The export entry points over stored SOPs                                 *)

EntrySteps ==
    { Step(t, << >>, << >>, Unset) : t \in Titles } \cup { Step(TitleA, << >>, Url, Unset) }

InitEntry ==
    /\ metadata \in { Meta(t, VersionOne) : t \in { << >>, TitleA } }
    /\ steps \in ListsUpTo(EntrySteps, MaxSteps)
    /\ currentStep = EmptyStep
    /\ Idle /\ FreshRun
    /\ saved = << >>
    /\ PagesAtRest

NextEntry ==
    \/ GenAStart \/ GenCStart \/ GenLoop \/ GenSave
    \/ CadBStart \/ Cad5Start \/ CadLoop \/ CadSave
    \/ Cad2Start \/ Cad2Complete \/ Cad2Table
    \/ ExpNewStart \/ ExpViewStart \/ ExpLoop \/ ExpSave

SpecEntry == InitEntry /\ [][NextEntry]_vars

----------------------------------------------------------------------------
(* The new-SOP page from a fresh form                                       *)

InitPage ==
    /\ metadata = Meta(<< >>, VersionOne)
    /\ steps = << >>
    /\ currentStep = EmptyStep
    /\ Idle /\ FreshRun
    /\ saved = << >>
    /\ PagesAtRest

NextPage ==
    \/ SetTitle \/ TypeStepTitle \/ AddStep \/ EditStep
    \/ ExpNewStart \/ ExpLoop \/ ExpSave
    \/ GenAStart \/ GenLoop \/ GenSave

SpecPage == InitPage /\ [][NextPage]_vars

----------------------------------------------------------------------------
(* The renderers that show a symbol per step                                *)

SymSteps ==
    { Step(TitleA, d, << >>, s) : d \in { << >>, Lines(1) }, s \in SymbolTypes \cup {Unset} }

InitSym ==
    /\ metadata = Meta(TitleA, VersionOne)
    /\ steps \in ListsUpTo(SymSteps, MaxSteps)
                 \cup ListsUpTo({ Step(TitleA, << >>, << >>, Unset) }, MaxLong)
    /\ currentStep = EmptyStep
    /\ Idle /\ FreshRun
    /\ saved = << >>
    /\ PagesAtRest

NextSym ==
    \/ GenAStart \/ GenLoop \/ GenSave
    \/ PdfViewRender \/ GenDirectRun

SpecSym == InitSym /\ [][NextSym]_vars

----------------------------------------------------------------------------
(* The exporters that fetch the steps' images                               *)

ImgSteps ==
    { Step(TitleA, << >>, << >>, Unset), Step(TitleA, << >>, Url, Unset),
      Step(TitleA, Lines(4), Url, "hazard") }

InitImg ==
    /\ metadata = Meta(TitleA, VersionOne)
    /\ steps \in ListsUpTo(ImgSteps, MaxSteps)
    /\ currentStep = EmptyStep
    /\ Idle /\ FreshRun
    /\ saved = << >>
    /\ PagesAtRest

NextImg ==
    \/ CadBStart \/ Cad5Start \/ CadLoop \/ CadSave
    \/ Cad2Start \/ Cad2Complete \/ Cad2Table

SpecImg == InitImg /\ [][NextImg]_vars

----------------------------------------------------------------------------
(* The exporters that catch the errors of the drawing backend               *)

InitDraw ==
    /\ metadata = Meta(TitleA, VersionOne)
    /\ steps \in ListsUpTo(ImgSteps, MaxSteps)
    /\ currentStep = EmptyStep
    /\ Idle /\ FreshRun
    /\ saved = << >>
    /\ PagesAtRest

NextDraw ==
    \/ CadBStart \/ Cad5Start \/ Cad1Start
    \/ CadLoop \/ Cad1Loop \/ CadThrow \/ CadSave

SpecDraw == InitDraw /\ [][NextDraw]_vars

----------------------------------------------------------------------------
(* Every exporter that saves a file, over titles of mixed characters        *)

TitleChars == {"a", "B", "1", SP, "-"}

InitFile ==
    /\ metadata \in { Meta(t, v) : t \in ListsUpTo(TitleChars, MaxTitle),
                                   v \in { VersionOne, <<"2">> } }
    /\ steps \in ListsUpTo({ Step(TitleA, << >>, << >>, Unset),
                             Step(TitleA, << >>, Url, Unset) }, 1)
    /\ currentStep = EmptyStep
    /\ Idle /\ FreshRun
    /\ saved = << >>
    /\ PagesAtRest

NextFile ==
    \/ GenAStart \/ GenCStart \/ GenLoop \/ GenSave
    \/ CadBStart \/ Cad5Start \/ Cad1Start \/ CadLoop \/ Cad1Loop \/ CadSave
    \/ Cad2Start \/ Cad2Complete \/ Cad2Table
    \/ ExpNewStart \/ ExpViewStart \/ ExpLoop \/ ExpSave
    \/ GenDirectRun

SpecFile == InitFile /\ [][NextFile]_vars

----------------------------------------------------------------------------
(* The same SOP exported more than once                                     *)

\* the user presses the export button again: a new call with new locals
ExportAgain ==
    /\ pc \in {"done", "failed"}
    /\ Len(saved) < MaxExports
    /\ exporter' = "idle" /\ pc' = "idle"
    /\ validSteps' = << >> /\ i' = 0 /\ yPosition' = 0 /\ pageHeaders' = << >>
    /\ rows' = << >> /\ pending' = {} /\ images' = << >> /\ failedImages' = {}
    /\ drawErrors' = {} /\ formNr' = 0
    /\ UNCHANGED << metadata, steps, currentStep, saved >>
    /\ UNCHANGED pageVars

TwiceSteps == { Step(TitleA, Lines(1), << >>, Unset), Step(TitleA, Lines(4), Url, Unset) }

InitTwice ==
    /\ metadata = Meta(TitleA, VersionOne)
    /\ steps \in ListsUpTo(TwiceSteps, MaxSteps) \ { << >> }
    /\ currentStep = EmptyStep
    /\ Idle /\ FreshRun
    /\ saved = << >>
    /\ PagesAtRest

NextTwice == GenAStart \/ GenCStart \/ GenLoop \/ GenSave \/ ExportAgain

SpecTwice == InitTwice /\ [][NextTwice]_vars

----------------------------------------------------------------------------
(* The document store and the pages that export a stored SOP               *)

MaxStored == 2

\* a record of the 'sops' collection
Sop(id, meta, list) == [id |-> id, metadata |-> meta, steps |-> list]

\* the id in the route of the view page
ViewId == 1

\* freshData written back without the steps the exporter filters out
FreshDataFiltered(d) ==
    [id |-> d.id, metadata |-> d.metadata, steps |-> FilterValid(d.steps)]

\* freshData = { id: docSnap.id, ...docSnap.data() }
FreshData(d) ==
    [id |-> d.id, metadata |-> d.metadata, steps |-> d.steps]

\* ViewSOPPage with handleExportPDF (part_009)
ViewHandled == "ViewSOPPage/handleExportPDF"

\* ViewSOPPage with refreshAndExportPDF (NewSOPPage.tsx lines 640-833)
ViewRefresh == "ViewSOPPage/refreshAndExportPDF"

\* handleExportPDF up to the call: the button is disabled while exportingPdf
HandleExportPDF ==
    /\ route = ViewHandled /\ Idle /\ ~exportingPdf
    /\ Len(saved) < MaxExports
    /\ exportingPdf' = TRUE
    /\ UNCHANGED << metadata, steps, currentStep, exporter, pc, validSteps, i,
                    yPosition, pageHeaders, rows, pending, images, failedImages,
                    saved, drawErrors, formNr >>
    /\ UNCHANGED << store, sops, deleting, saving, uploading, isSaving, isUploading,
                    showCamera, isCameraReady, streamRef, tracks, userMedia,
                    route, sessionStorage, request, response >>

\* await createAndDownloadSopPdf(sop.metadata, sop.steps)
HandleExportCall ==
    /\ route = ViewHandled /\ exportingPdf
    /\ CadBStart

\* setExportingPdf(false) after the awaited call only, not in a finally: a
\* failed export leaves the flag set
HandleExportFinallyOnSuccess ==
    /\ route = ViewHandled /\ exportingPdf
    /\ exporter = CadB /\ pc = "done"
    /\ exportingPdf' = FALSE
    /\ exporter' = "idle" /\ pc' = "idle"
    /\ validSteps' = << >> /\ i' = 0 /\ yPosition' = 0 /\ pageHeaders' = << >>
    /\ rows' = << >> /\ pending' = {} /\ images' = << >> /\ failedImages' = {}
    /\ drawErrors' = {} /\ formNr' = 0
    /\ UNCHANGED << metadata, steps, currentStep, saved >>
    /\ UNCHANGED << store, sops, deleting, saving, uploading, isSaving, isUploading,
                    showCamera, isCameraReady, streamRef, tracks, userMedia,
                    route, sessionStorage, request, response >>

\* finally { setExportingPdf(false) }: the call has returned and its locals
\* are gone
HandleExportFinally ==
    /\ route = ViewHandled /\ exportingPdf
    /\ exporter = CadB /\ pc \in {"done", "failed"}
    /\ exportingPdf' = FALSE
    /\ exporter' = "idle" /\ pc' = "idle"
    /\ validSteps' = << >> /\ i' = 0 /\ yPosition' = 0 /\ pageHeaders' = << >>
    /\ rows' = << >> /\ pending' = {} /\ images' = << >> /\ failedImages' = {}
    /\ drawErrors' = {} /\ formNr' = 0
    /\ UNCHANGED << metadata, steps, currentStep, saved >>
    /\ UNCHANGED << store, sops, deleting, saving, uploading, isSaving, isUploading,
                    showCamera, isCameraReady, streamRef, tracks, userMedia,
                    route, sessionStorage, request, response >>

\* refreshAndExportPDF once getDoc has resolved with an existing document:
\* setSop(freshData), then createAndDownloadSopPdf on the fresh data (lines
\* 377-421 of pdfUtils.ts), which is not awaited
RefreshAndExportPDF ==
    /\ route = ViewRefresh /\ Idle
    /\ \E d \in { r \in store : r.id = ViewId } :
          /\ metadata' = FreshData(d).metadata
          /\ steps' = FreshData(d).steps
          /\ validSteps' = FilterValid(FreshData(d).steps)
    /\ exporter' = CadB /\ pc' = "loop"
    /\ i' = 0
    /\ pageHeaders' = << "title+metadata-table" >>
    /\ yPosition' = MetaTableFinalY + 15
    /\ UNCHANGED << drawErrors, formNr, currentStep, rows, pending, images,
                    failedImages, saved >>
    /\ UNCHANGED pageVars

\* the button of the refreshing page pressed again
RefreshAgain ==
    /\ route = ViewRefresh
    /\ ExportAgain

StoredSteps ==
    { Step(<<"a">>, << >>, << >>, Unset), Step(<<SP>>, << >>, << >>, Unset),
      Step(<<"b">>, << >>, Url, Unset) }

StoredMeta == { Meta(t, VersionOne) : t \in { << >>, TitleA } }

\* the page has loaded the SOP; the record may have been rewritten since
InitView ==
    /\ metadata \in StoredMeta
    /\ steps \in ListsUpTo(StoredSteps, MaxStored)
    /\ currentStep = EmptyStep
    /\ Idle /\ FreshRun
    /\ saved = << >>
    /\ store \in { { Sop(ViewId, m, l) } :
                     m \in StoredMeta, l \in ListsUpTo(StoredSteps, MaxStored) }
    /\ route \in {ViewHandled, ViewRefresh}
    /\ sops = << >> /\ deleting = {} /\ saving = Null /\ uploading = {}
    /\ isSaving = FALSE /\ isUploading = FALSE /\ exportingPdf = FALSE
    /\ showCamera = FALSE /\ isCameraReady = FALSE /\ streamRef = 0
    /\ tracks = {} /\ userMedia = {}
    /\ sessionStorage = Null /\ request = Null /\ response = Null

NextView ==
    \/ HandleExportPDF \/ HandleExportCall \/ HandleExportFinally
    \/ RefreshAndExportPDF \/ RefreshAgain
    \/ CadLoop \/ CadThrow \/ CadSave

SpecView == InitView /\ [][NextView]_vars

----------------------------------------------------------------------------
(* The image relay: GET /api/image-proxy?url=...                            *)

\* the query of a request: whether it has a url parameter, and its value
RelayQueries ==
    { [param |-> FALSE, url |-> << >>], [param |-> TRUE, url |-> << >>],
      [param |-> TRUE, url |-> Url], [param |-> TRUE, url |-> <<"v">>] }

\* imageUrl = searchParams.get('url') is truthy
HasImageUrl(query) == query.param /\ Truthy(query.url)

\* the replies of the upstream server: status, content-type header and bytes
UpstreamStatuses == { 200, 206, 401, 403, 404, 500, 503 }

\* headers.get('content-type') of a reply without the header
NoHeader == "null"

ContentTypes == { NoHeader, "image/png", "image/webp" }

ImageBytes == { "bytes-1", "bytes-2" }

Upstreams ==
    [ status : UpstreamStatuses, contentType : ContentTypes, bytes : ImageBytes ]

\* fetch(imageUrl) rejected
Rejected == [rejected |-> TRUE]

\* response.ok
Ok(status) == status \in 200..299

\* NextResponse.json({ error }, { status })
JsonError(status) ==
    [status |-> status, contentType |-> "application/json", body |-> "error"]

\* the status handed to NextResponse.json for an upstream reply that is not
\* ok, fixed at 502
ErrorStatusBadGateway(upstream) == 502

\* { status: response.status }
ErrorStatus(upstream) == upstream.status

\* response.headers.get('content-type') || 'image/jpeg'
ContentTypeOrJpeg(upstream) ==
    IF upstream.contentType = NoHeader THEN "image/jpeg" ELSE upstream.contentType

\* new NextResponse(imageBuffer, { headers })
ImageResponse(upstream) ==
    [status |-> 200, contentType |-> ContentTypeOrJpeg(upstream), body |-> upstream.bytes]

\* a request reaches the route
RelayReceive ==
    /\ request = Null
    /\ \E q \in RelayQueries : request' = [query |-> q, upstream |-> Null, body |-> "unread"]
    /\ response' = Null
    /\ UNCHANGED << metadata, steps, currentStep, exporter, pc, validSteps, i,
                    yPosition, pageHeaders, rows, pending, images, failedImages,
                    saved, drawErrors, formNr >>
    /\ UNCHANGED << store, sops, deleting, saving, uploading, isSaving, isUploading,
                    exportingPdf, showCamera, isCameraReady, streamRef, tracks,
                    userMedia, route, sessionStorage >>

\* GET up to await fetch(imageUrl): 400 without a url; else the fetch settles,
\* and a rejection (catch: 500) or a reply that is not ok ends the handler
RelayFetch ==
    /\ request # Null /\ response = Null /\ request.upstream = Null
    /\ IF ~HasImageUrl(request.query)
       THEN /\ response' = JsonError(400)
            /\ UNCHANGED request
       ELSE \/ /\ request' = [request EXCEPT !.upstream = Rejected]
               /\ response' = JsonError(500)
            \/ \E up \in Upstreams :
                  /\ request' = [request EXCEPT !.upstream = up]
                  /\ response' = IF Ok(up.status) THEN Null
                                 ELSE JsonError(ErrorStatus(up))
    /\ UNCHANGED << metadata, steps, currentStep, exporter, pc, validSteps, i,
                    yPosition, pageHeaders, rows, pending, images, failedImages,
                    saved, drawErrors, formNr >>
    /\ UNCHANGED << store, sops, deleting, saving, uploading, isSaving, isUploading,
                    exportingPdf, showCamera, isCameraReady, streamRef, tracks,
                    userMedia, route, sessionStorage >>

\* await response.arrayBuffer() settles: the image response, or catch: 500
RelayBody ==
    /\ request # Null /\ response = Null
    /\ request.upstream \in Upstreams
    /\ \E read \in { "read", "rejected" } :
          /\ request' = [request EXCEPT !.body = read]
          /\ response' = IF read = "read" THEN ImageResponse(request.upstream)
                         ELSE JsonError(500)
    /\ UNCHANGED << metadata, steps, currentStep, exporter, pc, validSteps, i,
                    yPosition, pageHeaders, rows, pending, images, failedImages,
                    saved, drawErrors, formNr >>
    /\ UNCHANGED << store, sops, deleting, saving, uploading, isSaving, isUploading,
                    exportingPdf, showCamera, isCameraReady, streamRef, tracks,
                    userMedia, route, sessionStorage >>

\* the response has gone out; the route serves the next request
RelayReturn ==
    /\ request # Null /\ response # Null
    /\ request' = Null /\ response' = Null
    /\ UNCHANGED << metadata, steps, currentStep, exporter, pc, validSteps, i,
                    yPosition, pageHeaders, rows, pending, images, failedImages,
                    saved, drawErrors, formNr >>
    /\ UNCHANGED << store, sops, deleting, saving, uploading, isSaving, isUploading,
                    exportingPdf, showCamera, isCameraReady, streamRef, tracks,
                    userMedia, route, sessionStorage >>

InitRelay ==
    /\ metadata = Meta(<< >>, VersionOne)
    /\ steps = << >>
    /\ currentStep = EmptyStep
    /\ Idle /\ FreshRun
    /\ saved = << >>
    /\ PagesAtRest

NextRelay == RelayReceive \/ RelayFetch \/ RelayBody \/ RelayReturn

SpecRelay == InitRelay /\ [][NextRelay]_vars

----------------------------------------------------------------------------
(* The step list of the form pages: moveStep and editStep                   *)

\* newSteps[index] = newSteps[newIndex] without the second half of the swap
MoveStepListOverwrite(list, index, direction) ==
    IF \/ direction = "up" /\ index = 0
       \/ direction = "down" /\ index = Len(list) - 1
    THEN list
    ELSE LET newIndex == IF direction = "up" THEN index - 1 ELSE index + 1
         IN [list EXCEPT ![index + 1] = list[newIndex + 1]]

\* moveStep(index, direction) on the array, index counted from 0:
\* [newSteps[index], newSteps[newIndex]] = [newSteps[newIndex], newSteps[index]]
MoveStepList(list, index, direction) ==
    IF \/ direction = "up" /\ index = 0
       \/ direction = "down" /\ index = Len(list) - 1
    THEN list
    ELSE LET newIndex == IF direction = "up" THEN index - 1 ELSE index + 1
         IN [list EXCEPT ![index + 1] = list[newIndex + 1],
                         ![newIndex + 1] = list[index + 1]]

\* the arrow buttons of the step at position index
MoveStep ==
    /\ Idle
    /\ \E index \in 0..(Len(steps) - 1), direction \in {"up", "down"} :
          steps' = MoveStepList(steps, index, direction)
    /\ UNCHANGED << metadata, currentStep, exporter, pc, validSteps, i,
                    yPosition, pageHeaders, rows, pending, images, failedImages,
                    saved, drawErrors, formNr >>
    /\ UNCHANGED pageVars

\* the title of the k-th authored step: k letters
Numbered(k) == Repeat("a", k)

\* the lists of up to n steps authored in order, with or without key points
\* and picture
RECURSIVE AuthoredLists(_)
AuthoredLists(n) ==
    IF n = 0 THEN { << >> }
    ELSE LET shorter == AuthoredLists(n - 1)
         IN shorter \cup
            { Append(l, Step(Numbered(n), d, u, Unset)) :
                l \in { s \in shorter : Len(s) = n - 1 },
                d \in { << >>, Lines(1) }, u \in { << >>, Url } }

InitMove ==
    /\ metadata = Meta(TitleA, VersionOne)
    /\ steps \in AuthoredLists(MaxSteps)
    /\ currentStep = EmptyStep
    /\ Idle /\ FreshRun
    /\ saved = << >>
    /\ PagesAtRest

NextMove == MoveStep

SpecMove == InitMove /\ [][NextMove]_vars

\* the id in the route of the edit page
EditId == 1

\* the edit page after fetchSOP: setMetadata(sopData.metadata),
\* setSteps(sopData.steps)
InitEdit ==
    /\ metadata = Meta(TitleA, VersionOne)
    /\ steps \in AuthoredLists(MaxSteps)
    /\ store = { Sop(EditId, metadata, steps) }
    /\ currentStep = EmptyStep
    /\ Idle /\ FreshRun
    /\ saved = << >>
    /\ route = "/sop/edit"
    /\ sops = << >> /\ deleting = {} /\ saving = Null /\ uploading = {}
    /\ isSaving = FALSE /\ isUploading = FALSE /\ exportingPdf = FALSE
    /\ showCamera = FALSE /\ isCameraReady = FALSE /\ streamRef = 0
    /\ tracks = {} /\ userMedia = {}
    /\ sessionStorage = Null /\ request = Null /\ response = Null

NextEdit == EditStep \/ AddStep \/ MoveStep

SpecEdit == InitEdit /\ [][NextEdit]_vars

----------------------------------------------------------------------------
(* The list page: fetchSOPs, deleteSOP and cloneSOP                         *)

MaxDocs == 3

MaxInFlight == 2

\* SOPMetadata with the fields cloneSOP rewrites
FullMeta(t, v, approved) == [title |-> t, version |-> v, approvalDate |-> approved]

VersionTwo == <<"2", ".", "0">>

ApprovalDay == <<"2", "0", "2", "5">>

\* the stored SOP with the given id: created in the order of the ids, approved
\* when the id is even
StoredSop(id) ==
    [id |-> id,
     metadata |-> FullMeta(Numbered(id), VersionTwo,
                           IF id % 2 = 0 THEN ApprovalDay ELSE << >>),
     steps |-> [k \in 1..((id % 2) + 1) |-> Step(Numbered(k), << >>, << >>, Unset)],
     createdAt |-> id]

\* sopList.sort((a, b) => new Date(b.createdAt) - new Date(a.createdAt))
RECURSIVE SortNewestFirst(_)
SortNewestFirst(docs) ==
    IF docs = {} THEN << >>
    ELSE LET newest == CHOOSE d \in docs : \A e \in docs : e.createdAt <= d.createdAt
         IN << newest >> \o SortNewestFirst(docs \ {newest})

\* sops.filter(sop => sop.id !== id)
FilterOutId(list, id) == SelectSeq(list, LAMBDA sop : sop.id # id)

\* deleteSOP(id) after confirm() returned true, up to await deleteDoc: the
\* call keeps the sops of the render it was created in
DeleteSOP ==
    /\ route = "/"
    /\ Cardinality(deleting) < MaxInFlight
    /\ \E k \in 1..Len(sops) :
          deleting' = deleting \cup { [id |-> sops[k].id, sops |-> sops] }
    /\ UNCHANGED << metadata, steps, currentStep, exporter, pc, validSteps, i,
                    yPosition, pageHeaders, rows, pending, images, failedImages,
                    saved, drawErrors, formNr >>
    /\ UNCHANGED << store, sops, saving, uploading, isSaving, isUploading,
                    exportingPdf, showCamera, isCameraReady, streamRef, tracks,
                    userMedia, route, sessionStorage, request, response >>

\* deleteDoc resolves: setSops(sops.filter(...)) on the sops the call kept;
\* setSops does nothing once the list page is unmounted
DeleteResolved ==
    /\ \E call \in deleting :
          /\ store' = { d \in store : d.id # call.id }
          /\ sops' = IF route = "/" THEN FilterOutId(call.sops, call.id) ELSE sops
          /\ deleting' = deleting \ {call}
    /\ UNCHANGED << metadata, steps, currentStep, exporter, pc, validSteps, i,
                    yPosition, pageHeaders, rows, pending, images, failedImages,
                    saved, drawErrors, formNr >>
    /\ UNCHANGED << saving, uploading, isSaving, isUploading,
                    exportingPdf, showCamera, isCameraReady, streamRef, tracks,
                    userMedia, route, sessionStorage, request, response >>

\* deleteDoc rejects: catch, alert
DeleteRejected ==
    /\ \E call \in deleting : deleting' = deleting \ {call}
    /\ UNCHANGED << metadata, steps, currentStep, exporter, pc, validSteps, i,
                    yPosition, pageHeaders, rows, pending, images, failedImages,
                    saved, drawErrors, formNr >>
    /\ UNCHANGED << store, sops, saving, uploading, isSaving, isUploading,
                    exportingPdf, showCamera, isCameraReady, streamRef, tracks,
                    userMedia, route, sessionStorage, request, response >>

\* the list page after fetchSOPs: every stored SOP, newest first
InitList ==
    /\ metadata = Meta(<< >>, VersionOne)
    /\ steps = << >>
    /\ currentStep = EmptyStep
    /\ Idle /\ FreshRun
    /\ saved = << >>
    /\ store \in SUBSET { StoredSop(id) : id \in 1..MaxDocs }
    /\ sops = SortNewestFirst(store)
    /\ route = "/"
    /\ deleting = {} /\ saving = Null /\ uploading = {}
    /\ isSaving = FALSE /\ isUploading = FALSE /\ exportingPdf = FALSE
    /\ showCamera = FALSE /\ isCameraReady = FALSE /\ streamRef = 0
    /\ tracks = {} /\ userMedia = {}
    /\ sessionStorage = Null /\ request = Null /\ response = Null

NextList == DeleteSOP \/ DeleteResolved \/ DeleteRejected

SpecList == InitList /\ [][NextList]_vars

----------------------------------------------------------------------------
(* The photo of the step being authored: camera and upload                  *)

MaxStreams == 2

\* the new-SOP and edit-SOP pages
FormPages == { "/sop/new", "/sop/edit" }

\* videoRef.current is set: the <video> element is rendered
VideoMounted == route \in FormPages /\ showCamera

\* the cleanup of the showCamera effect: the tracks of streamRef.current stop,
\* the ref keeps its value
EffectCleanup(running) == running \ {streamRef}

\* 'Take Photo': setShowCamera(true); the effect calls initializeCamera,
\* which waits for getUserMedia
TakePhoto ==
    /\ route \in FormPages
    /\ ~showCamera /\ ~isUploading /\ ~Truthy(currentStep.imageUrl)
    /\ \E id \in 1..MaxStreams :
          /\ id \notin userMedia \cup tracks
          /\ userMedia' = userMedia \cup {id}
    /\ showCamera' = TRUE
    /\ tracks' = EffectCleanup(tracks)
    /\ UNCHANGED << metadata, steps, currentStep, exporter, pc, validSteps, i,
                    yPosition, pageHeaders, rows, pending, images, failedImages,
                    saved, drawErrors, formNr >>
    /\ UNCHANGED << store, sops, deleting, saving, uploading, isSaving, isUploading,
                    exportingPdf, isCameraReady, streamRef,
                    route, sessionStorage, request, response >>

\* getUserMedia resolves with a running stream; it is kept only if the video
\* element is there
GetUserMediaResolved ==
    /\ \E id \in userMedia :
          /\ userMedia' = userMedia \ {id}
          /\ tracks' = tracks \cup {id}
          /\ IF VideoMounted
             THEN streamRef' = id /\ isCameraReady' = TRUE
             ELSE UNCHANGED << streamRef, isCameraReady >>
    /\ UNCHANGED << metadata, steps, currentStep, exporter, pc, validSteps, i,
                    yPosition, pageHeaders, rows, pending, images, failedImages,
                    saved, drawErrors, formNr >>
    /\ UNCHANGED << store, sops, deleting, saving, uploading, isSaving, isUploading,
                    exportingPdf, showCamera,
                    route, sessionStorage, request, response >>

\* getUserMedia rejects or is not supported: alert, setShowCamera(false); the
\* effect's cleanup runs when showCamera changes
GetUserMediaRejected ==
    /\ \E id \in userMedia : userMedia' = userMedia \ {id}
    /\ showCamera' = FALSE
    /\ tracks' = IF VideoMounted THEN EffectCleanup(tracks) ELSE tracks
    /\ UNCHANGED << metadata, steps, currentStep, exporter, pc, validSteps, i,
                    yPosition, pageHeaders, rows, pending, images, failedImages,
                    saved, drawErrors, formNr >>
    /\ UNCHANGED << store, sops, deleting, saving, uploading, isSaving, isUploading,
                    exportingPdf, isCameraReady, streamRef,
                    route, sessionStorage, request, response >>

\* what stopCamera does to the refs and the state
StopCameraEffect ==
    /\ tracks' = tracks \ {streamRef}
    /\ streamRef' = 0
    /\ showCamera' = FALSE
    /\ isCameraReady' = FALSE

\* 'Cancel' in the camera view
StopCamera ==
    /\ VideoMounted
    /\ StopCameraEffect
    /\ UNCHANGED << metadata, steps, currentStep, exporter, pc, validSteps, i,
                    yPosition, pageHeaders, rows, pending, images, failedImages,
                    saved, drawErrors, formNr >>
    /\ UNCHANGED << store, sops, deleting, saving, uploading, isSaving, isUploading,
                    exportingPdf, userMedia,
                    route, sessionStorage, request, response >>

\* the download URL of an uploaded picture
DownloadUrl == <<"d">>

\* handleFileChange with a file, up to the first await
HandleFileChange ==
    /\ route \in FormPages
    /\ ~showCamera /\ ~isUploading /\ ~Truthy(currentStep.imageUrl)
    /\ isUploading' = TRUE
    /\ uploading' = uploading \cup { [via |-> "file", currentStep |-> currentStep] }
    /\ UNCHANGED << metadata, steps, currentStep, exporter, pc, validSteps, i,
                    yPosition, pageHeaders, rows, pending, images, failedImages,
                    saved, drawErrors, formNr >>
    /\ UNCHANGED << store, sops, deleting, saving, isSaving,
                    exportingPdf, showCamera, isCameraReady, streamRef, tracks,
                    userMedia, route, sessionStorage, request, response >>

\* capturePhoto with a blob from the canvas, up to the first await
CapturePhoto ==
    /\ VideoMounted /\ isCameraReady /\ ~isUploading
    /\ isUploading' = TRUE
    /\ uploading' = uploading \cup { [via |-> "camera", currentStep |-> currentStep] }
    /\ UNCHANGED << metadata, steps, currentStep, exporter, pc, validSteps, i,
                    yPosition, pageHeaders, rows, pending, images, failedImages,
                    saved, drawErrors, formNr >>
    /\ UNCHANGED << store, sops, deleting, saving, isSaving,
                    exportingPdf, showCamera, isCameraReady, streamRef, tracks,
                    userMedia, route, sessionStorage, request, response >>

\* { ...currentStep, imageUrl: downloadUrl, imageName: filename } with the
\* currentStep the handler closed over
WithImage(closed) == [closed EXCEPT !.imageUrl = DownloadUrl]

\* uploadBytes and getDownloadURL resolve: setCurrentStep, stopCamera() after
\* a capture, finally setIsUploading(false)
UploadResolved ==
    /\ \E up \in uploading :
          /\ uploading' = uploading \ {up}
          /\ currentStep' = WithImage(up.currentStep)
          /\ IF up.via = "camera"
             THEN StopCameraEffect
             ELSE UNCHANGED << tracks, streamRef, showCamera, isCameraReady >>
    /\ isUploading' = FALSE
    /\ UNCHANGED << metadata, steps, exporter, pc, validSteps, i,
                    yPosition, pageHeaders, rows, pending, images, failedImages,
                    saved, drawErrors, formNr >>
    /\ UNCHANGED << store, sops, deleting, saving, isSaving,
                    exportingPdf, userMedia,
                    route, sessionStorage, request, response >>

\* compressImage, uploadBytes or getDownloadURL rejects: catch, alert, finally
UploadRejected ==
    /\ \E up \in uploading : uploading' = uploading \ {up}
    /\ isUploading' = FALSE
    /\ UNCHANGED << metadata, steps, currentStep, exporter, pc, validSteps, i,
                    yPosition, pageHeaders, rows, pending, images, failedImages,
                    saved, drawErrors, formNr >>
    /\ UNCHANGED << store, sops, deleting, saving, isSaving,
                    exportingPdf, showCamera, isCameraReady, streamRef, tracks,
                    userMedia, route, sessionStorage, request, response >>

\* onChange of the step description input
TypeStepDescription ==
    /\ Idle /\ route \in FormPages
    /\ \E d \in { << >>, Lines(1) } :
          /\ currentStep.description # d
          /\ currentStep' = [currentStep EXCEPT !.description = d]
    /\ UNCHANGED << metadata, steps, exporter, pc, validSteps, i,
                    yPosition, pageHeaders, rows, pending, images, failedImages,
                    saved, drawErrors, formNr >>
    /\ UNCHANGED pageVars

\* 'Back to List': router.push('/') unmounts the page; the effect's cleanup
\* runs and the page's state is gone
LeaveForm ==
    /\ route \in FormPages
    /\ route' = "/"
    /\ tracks' = EffectCleanup(tracks)
    /\ uploading' = {}
    /\ UNCHANGED << metadata, steps, currentStep, exporter, pc, validSteps, i,
                    yPosition, pageHeaders, rows, pending, images, failedImages,
                    saved, drawErrors, formNr >>
    /\ UNCHANGED << store, sops, deleting, saving, isSaving, isUploading,
                    exportingPdf, showCamera, isCameraReady, streamRef,
                    userMedia, sessionStorage, request, response >>

\* the step title input of a mounted form page
TypeStepTitleOnForm ==
    /\ route \in FormPages /\ ~isSaving
    /\ TypeStepTitle

InitPhoto ==
    /\ metadata = Meta(<< >>, VersionOne)
    /\ steps = << >>
    /\ currentStep = EmptyStep
    /\ Idle /\ FreshRun
    /\ saved = << >>
    /\ PagesAtRest

NextPhoto ==
    \/ TakePhoto \/ GetUserMediaResolved \/ GetUserMediaRejected \/ StopCamera
    \/ HandleFileChange \/ CapturePhoto \/ UploadResolved \/ UploadRejected
    \/ TypeStepTitleOnForm \/ TypeStepDescription \/ LeaveForm

SpecPhoto == InitPhoto /\ [][NextPhoto]_vars

----------------------------------------------------------------------------
(* Saving the form: saveSOP on the new-SOP page, updateSOP on the edit page *)

\* the two tests of saveSOP / updateSOP with the second one left out
SavePreconditionsTitleOnly(meta, list) == Truthy(meta.title)

\* neither 'Please add a SOP title' nor 'Please add at least one step'
SavePreconditions(meta, list) == Truthy(meta.title) /\ Len(list) # 0

\* the id addDoc gives the new document: one that is not in use
NewDocIds == { id \in 1..(MaxDocs + 1) : \A d \in store : d.id # id }

\* saveSOP / updateSOP up to the await: the alerts, or setIsSaving(true) and
\* the call with the metadata and steps of this render
SaveSOP ==
    /\ route \in FormPages /\ ~isSaving
    /\ SavePreconditions(metadata, steps)
    /\ isSaving' = TRUE
    /\ saving' = [op |-> IF route = "/sop/new" THEN "addDoc" ELSE "updateDoc",
                  metadata |-> metadata, steps |-> steps]
    /\ UNCHANGED << metadata, steps, currentStep, exporter, pc, validSteps, i,
                    yPosition, pageHeaders, rows, pending, images, failedImages,
                    saved, drawErrors, formNr >>
    /\ UNCHANGED << store, sops, deleting, uploading, isUploading,
                    exportingPdf, showCamera, isCameraReady, streamRef, tracks,
                    userMedia, route, sessionStorage, request, response >>

\* addDoc / updateDoc resolves: the record is in the store, router.push('/'),
\* finally setIsSaving(false)
SaveResolved ==
    /\ saving # Null
    /\ IF saving.op = "addDoc"
       THEN \E id \in NewDocIds :
               store' = store \cup { Sop(id, saving.metadata, saving.steps) }
       ELSE store' = { d \in store : d.id # EditId }
                        \cup { Sop(EditId, saving.metadata, saving.steps) }
    /\ route' = "/"
    /\ isSaving' = FALSE
    /\ saving' = Null
    /\ UNCHANGED << metadata, steps, currentStep, exporter, pc, validSteps, i,
                    yPosition, pageHeaders, rows, pending, images, failedImages,
                    saved, drawErrors, formNr >>
    /\ UNCHANGED << sops, deleting, uploading, isUploading,
                    exportingPdf, showCamera, isCameraReady, streamRef, tracks,
                    userMedia, sessionStorage, request, response >>

\* addDoc / updateDoc rejects: catch, alert, finally setIsSaving(false)
SaveRejected ==
    /\ saving # Null
    /\ isSaving' = FALSE
    /\ saving' = Null
    /\ UNCHANGED << metadata, steps, currentStep, exporter, pc, validSteps, i,
                    yPosition, pageHeaders, rows, pending, images, failedImages,
                    saved, drawErrors, formNr >>
    /\ UNCHANGED << store, sops, deleting, uploading, isUploading,
                    exportingPdf, showCamera, isCameraReady, streamRef, tracks,
                    userMedia, route, sessionStorage, request, response >>

\* removeStep(index)
RemoveStep ==
    /\ Idle /\ route \in FormPages /\ ~isSaving
    /\ \E index \in 1..Len(steps) :
          steps' = SubSeq(steps, 1, index - 1) \o SubSeq(steps, index + 1, Len(steps))
    /\ UNCHANGED << metadata, currentStep, exporter, pc, validSteps, i,
                    yPosition, pageHeaders, rows, pending, images, failedImages,
                    saved, drawErrors, formNr >>
    /\ UNCHANGED pageVars

\* the form inputs and buttons of a mounted form page, used while no save is
\* in flight (a call in flight has its arguments already)
SetTitleOnForm == route \in FormPages /\ ~isSaving /\ SetTitle

AddStepOnForm == route \in FormPages /\ ~isSaving /\ AddStep

\* the Edit button exists on the edit page only
EditStepOnEdit == route = "/sop/edit" /\ ~isSaving /\ EditStep

\* a fresh new-SOP page, or the edit page after fetchSOP
InitSave ==
    /\ currentStep = EmptyStep
    /\ Idle /\ FreshRun
    /\ saved = << >>
    /\ \/ /\ route = "/sop/new"
          /\ metadata = Meta(<< >>, VersionOne)
          /\ steps = << >>
          /\ store = {}
       \/ /\ route = "/sop/edit"
          /\ metadata = Meta(TitleA, VersionOne)
          /\ \E n \in 1..MaxStored :
                steps = [k \in 1..n |-> Step(Numbered(k), << >>, << >>, Unset)]
          /\ store = { Sop(EditId, metadata, steps) }
    /\ sops = << >> /\ deleting = {} /\ saving = Null /\ uploading = {}
    /\ isSaving = FALSE /\ isUploading = FALSE /\ exportingPdf = FALSE
    /\ showCamera = FALSE /\ isCameraReady = FALSE /\ streamRef = 0
    /\ tracks = {} /\ userMedia = {}
    /\ sessionStorage = Null /\ request = Null /\ response = Null

NextSave ==
    \/ SaveSOP \/ SaveResolved \/ SaveRejected
    \/ SetTitleOnForm \/ TypeStepTitleOnForm \/ AddStepOnForm \/ EditStepOnEdit
    \/ RemoveStep

SpecSave == InitSave /\ [][NextSave]_vars

----------------------------------------------------------------------------
(* Cloning: the list page stores a copy and opens the new-SOP page          *)

CopySuffix == <<SP, "(", "C", "o", "p", "y", ")">>

\* the item cloneSOP stores: the metadata with title, approval date and
\* version rewritten, and the steps
CloneItem(sop) ==
    [metadata |-> [sop.metadata EXCEPT !.title = sop.metadata.title \o CopySuffix,
                                       !.approvalDate = << >>,
                                       !.version = VersionOne],
     steps |-> sop.steps]

\* NewSOPPage mounts: its useState initial values
MountNewForm ==
    /\ metadata' = FullMeta(<< >>, VersionOne, << >>)
    /\ steps' = << >>
    /\ currentStep' = EmptyStep
    /\ isUploading' = FALSE /\ isSaving' = FALSE
    /\ showCamera' = FALSE /\ isCameraReady' = FALSE /\ streamRef' = 0

\* cloneSOP(sop): sessionStorage.setItem('cloneSOP', ...), router.push('/sop/new')
CloneSOP ==
    /\ route = "/"
    /\ \E k \in 1..Len(sops) : sessionStorage' = CloneItem(sops[k])
    /\ route' = "/sop/new"
    /\ MountNewForm
    /\ UNCHANGED << exporter, pc, validSteps, i,
                    yPosition, pageHeaders, rows, pending, images, failedImages,
                    saved, drawErrors, formNr >>
    /\ UNCHANGED << store, sops, deleting, saving, uploading,
                    exportingPdf, tracks, userMedia, request, response >>

\* 'Create New SOP': router.push('/sop/new')
OpenNewForm ==
    /\ route = "/"
    /\ route' = "/sop/new"
    /\ MountNewForm
    /\ UNCHANGED << exporter, pc, validSteps, i,
                    yPosition, pageHeaders, rows, pending, images, failedImages,
                    saved, drawErrors, formNr >>
    /\ UNCHANGED << store, sops, deleting, saving, uploading,
                    exportingPdf, tracks, userMedia, sessionStorage, request,
                    response >>

NextClone ==
    \/ CloneSOP \/ OpenNewForm
    \/ DeleteSOP \/ DeleteResolved \/ DeleteRejected

SpecClone == InitList /\ [][NextClone]_vars

----------------------------------------------------------------------------
(* The busy flags: an export from the view page, a save and an upload from  *)
(* a form page, each started and brought to its end                         *)

InitBusy ==
    /\ currentStep = EmptyStep
    /\ Idle /\ FreshRun
    /\ saved = << >>
    /\ metadata \in StoredMeta
    /\ steps \in ListsUpTo(StoredSteps, MaxStored)
    /\ route \in { ViewHandled, "/sop/new", "/sop/edit" }
    /\ store = IF route = "/sop/new" THEN {} ELSE { Sop(ViewId, metadata, steps) }
    /\ sops = << >> /\ deleting = {} /\ saving = Null /\ uploading = {}
    /\ isSaving = FALSE /\ isUploading = FALSE /\ exportingPdf = FALSE
    /\ showCamera = FALSE /\ isCameraReady = FALSE /\ streamRef = 0
    /\ tracks = {} /\ userMedia = {}
    /\ sessionStorage = Null /\ request = Null /\ response = Null

NextBusy ==
    \/ HandleExportPDF \/ HandleExportCall \/ HandleExportFinally
    \/ CadLoop \/ CadThrow \/ CadSave
    \/ SaveSOP \/ SaveResolved \/ SaveRejected
    \/ HandleFileChange \/ UploadResolved \/ UploadRejected

\* what is awaited settles: the export runs to its end and returns, the store
\* call and the upload resolve or reject
FairBusy ==
    /\ WF_vars(HandleExportCall)
    /\ WF_vars(CadLoop \/ CadThrow \/ CadSave)
    /\ WF_vars(HandleExportFinally)
    /\ WF_vars(SaveResolved \/ SaveRejected)
    /\ WF_vars(UploadResolved \/ UploadRejected)

SpecBusy == InitBusy /\ [][NextBusy]_vars /\ FairBusy

----------------------------------------------------------------------------
(* Properties                                                               *)

InGen == exporter \in {GenA, GenC} /\ pc \in {"loop", "done"}

RowsOnPage(p) == { k \in 1..Len(rows) : rows[k].page = p }

\* the cursor at which the rows of page p start
PageTop(variant, p) == IF p = 1 THEN FirstCursor(variant) ELSE ContinuedCursor(variant)

\* C1: in the layout loop of generateSOPPdf every input step is placed in exactly
\* one row and rows appear in input order: after i iterations there are exactly i
\* rows, the k-th row carries step k with its title, and the saved document holds
\* one row per input step; a page break neither drops nor duplicates a step.
C1_EveryStepOnceInOrder ==
    InGen =>
        /\ Len(rows) = i
        /\ \A k \in 1..Len(rows) :
              rows[k].step = k /\ rows[k].title = steps[k].title
        /\ pc = "done" =>
              /\ Len(rows) = Len(steps)
              /\ saved[Len(saved)].rows = rows

\* a saved document of three or more rows in which a page break occurred
C1_Witness ==
    /\ InGen /\ pc = "done"
    /\ Len(rows) >= 3
    /\ Len(pageHeaders) >= 2
    /\ \E k \in 2..Len(rows) : rows[k].page = rows[k - 1].page + 1

\* C2: on each page the rows have strictly increasing top offsets and each row
\* starts where the previous one on that page ends; no row's bottom edge passes
\* the usable bottom of the page, except a row that is alone on its page because
\* its own height exceeds the usable height of the page.
C2_RowsStackWithinPage ==
    InGen =>
        \A k \in 1..Len(rows) :
            /\ rows[k].height > 0
            /\ k > 1 =>
                 /\ rows[k].page >= rows[k - 1].page
                 /\ rows[k].page = rows[k - 1].page =>
                      /\ rows[k].top = rows[k - 1].top + rows[k - 1].height
                      /\ rows[k].top > rows[k - 1].top
            /\ \/ rows[k].top + rows[k].height <= UsableBottom(exporter)
               \/ /\ RowsOnPage(rows[k].page) = {k}
                  /\ rows[k].height >
                       UsableBottom(exporter) - PageTop(exporter, rows[k].page)

\* a document with a page of two stacked rows of different heights and a page
\* whose only row overflows the usable bottom
C2_Witness ==
    /\ InGen /\ pc = "done"
    /\ \E k \in 2..Len(rows) :
          /\ rows[k].page = rows[k - 1].page
          /\ rows[k - 1].height > 30
    /\ \E k \in 1..Len(rows) :
          /\ rows[k].top + rows[k].height > UsableBottom(exporter)
          /\ RowsOnPage(rows[k].page) = {k}

\* C3: every page of the saved document, the first page included, carries at
\* least one step row.
C3_NoPageWithoutRows ==
    (InGen /\ pc = "done") =>
        \A p \in 1..Len(pageHeaders) : RowsOnPage(p) # {}

\* C4: the overflow test is strict: when the cursor plus the row height equals
\* the usable bottom the row is drawn at the cursor on the current page, and a
\* page is opened only when the cursor plus the row height is greater than the
\* usable bottom.
C4_StrictOverflowTest ==
    [][ (InGen /\ pc = "loop" /\ i < Len(validSteps) /\ i' = i + 1) =>
          LET h == RowHeight(exporter, validSteps[i + 1], Len(validSteps))
              bottom == UsableBottom(exporter)
          IN /\ yPosition + h = bottom =>
                  /\ pageHeaders' = pageHeaders
                  /\ rows'[i + 1].top = yPosition
                  /\ rows'[i + 1].page = Len(pageHeaders)
             /\ Len(pageHeaders') > Len(pageHeaders) => yPosition + h > bottom
             /\ yPosition + h <= bottom => rows'[i + 1].top = yPosition ]_vars

\* a row was drawn on the first page whose bottom edge is exactly the usable
\* bottom, and no page was opened for it
C4_Witness ==
    /\ InGen /\ Len(rows) >= 1
    /\ rows[Len(rows)].top + rows[Len(rows)].height = UsableBottom(exporter)
    /\ rows[Len(rows)].page = 1
    /\ Len(pageHeaders) = 1


\* a title with at least one character that is not whitespace
HasVisibleChar(t) == \E j \in 1..Len(t) : t[j] \notin {SP, NL}

\* the positions of list whose step has such a title
Kept(list) == { k \in 1..Len(list) : HasVisibleChar(list[k].title) }

\* the n-th smallest of them
NthKept(list, n) ==
    CHOOSE k \in Kept(list) : Cardinality({ j \in Kept(list) : j <= k }) = n

\* C5: every export entry point refuses to proceed when metadata.title is
\* empty or no step has a non-blank title: once an exporter has been entered
\* on such input it has failed, and nothing is drawn and nothing is saved.
C5_RefusesBadInput ==
    ( /\ exporter # "idle"
      /\ \/ metadata.title = << >>
         \/ Kept(steps) = {} )
    => ( pc = "failed" /\ pageHeaders = << >> /\ rows = << >> /\ saved = << >> )

\* C6: the step filter of createAndDownloadSopPdf returns exactly the steps
\* whose title has a non-whitespace character, in their original relative
\* order (the n-th result is the step at the n-th kept position), and the
\* input list is the same list afterwards.
C6_NormalizerSublist ==
    [][ (exporter = "idle" /\ exporter' \in {CadB, Cad5})
        => /\ steps' = steps
           /\ Len(validSteps') = Cardinality(Kept(steps))
           /\ \A n \in 1..Len(validSteps') : validSteps'[n] = steps[NthKept(steps, n)]
      ]_vars

\* the filter has run on a list holding a whitespace-only title, which it
\* dropped, and a title with leading whitespace, which it kept as it was
C6_Witness ==
    /\ exporter \in {CadB, Cad5}
    /\ Len(validSteps) = 2 /\ Len(steps) = 3
    /\ \E k \in 1..Len(steps) : steps[k].title = <<SP>>
    /\ \E k \in 1..Len(validSteps) : validSteps[k].title = <<SP, "a">>
    /\ steps[Len(steps)] = validSteps[Len(validSteps)]

\* C7: no step whose title is empty or whitespace-only is ever laid out as a
\* row, whatever addStep/editStep calls came before the export.
C7_NoBlankRow ==
    \A k \in 1..Len(rows) : HasVisibleChar(rows[k].title)

\* C8: a step whose symbolType is set is displayed with that symbol, at
\* every index, by every renderer that shows a symbol per step.
C8_ExplicitSymbolWins ==
    exporter \in {GenA, PdfView, GenDirect}
    => \A k \in 1..Len(rows) :
          validSteps[rows[k].step].symbolType # Unset
          => rows[k].symbol = validSteps[rows[k].step].symbolType

\* C9: a step without symbolType is displayed with the element at position
\* (index mod 3) of [quality, correctness, tip], so never with hazard.
C9_FallbackCycle ==
    exporter \in {GenA, PdfView, GenDirect}
    => \A k \in 1..Len(rows) :
          validSteps[rows[k].step].symbolType = Unset
          => /\ rows[k].symbol =
                   << "quality", "correctness", "tip" >>[((rows[k].step - 1) % 3) + 1]
             /\ rows[k].symbol # "hazard"

\* C10: when a step's image fails to resolve the export does not fail; the
\* finished document has a row for every step, the row of each step whose
\* image failed carries a placeholder block, and the document is saved.
C10_ImageFailureIsolated ==
    exporter \in {CadB, Cad5, Cad2}
    => /\ pc # "failed"
       /\ pc = "done"
          => /\ Len(rows) = Len(validSteps)
             /\ \A k \in 1..Len(rows) : rows[k].step = k
             /\ saved # << >> /\ saved[Len(saved)].rows = rows
             /\ \A k \in failedImages : rows[k].pic.kind = "placeholder"

\* C11: if any drawing call of the backend fails during an export, the
\* export ends as a failure and no file is saved: a document is saved only
\* by a run in which no drawing call threw.
C11_DrawErrorMeansNoFile ==
    drawErrors # {} => (pc # "done" /\ saved = << >>)

\* C12: every page after the first repeats the header block, the legend
\* block and the table-header block of the first page before its first row,
\* and the first row of that page starts at the cursor below the repeated block.
C12_ContinuationRepeatsBlocks ==
    (exporter \in {GenA, GenC} /\ pc \in {"loop", "done"})
    => \A p \in 2..Len(pageHeaders) :
          /\ pageHeaders[p] = pageHeaders[1]
          /\ \A k \in 1..Len(rows) :
                (rows[k].page = p /\ (k = 1 \/ rows[k - 1].page < p))
                => rows[k].top = ContinuedCursor(exporter)

\* C13: the height of a step's row is a function of that step alone: in
\* any list it is the height the step gets when it is the only step.
C13_RowHeightOfStepAlone ==
    exporter \in {GenA, GenC}
    => \A k \in 1..Len(rows) :
          rows[k].height = RowHeight(exporter, validSteps[rows[k].step], 1)

\* C14: the picture block of a step with an image lies entirely between the
\* top and the bottom edge of the step's row.
C14_PictureInsideRow ==
    exporter \in {GenA, GenC}
    => \A k \in 1..Len(rows) :
          rows[k].pic.kind # "none"
          => /\ rows[k].pic.page = rows[k].page
             /\ rows[k].top <= rows[k].pic.top
             /\ rows[k].pic.bottom <= rows[k].top + rows[k].height

\* the number of non-empty segments between the line breaks of a description
KeyPointCount(d) ==
    Cardinality({ j \in 1..Len(d) : d[j] # NL /\ (j = 1 \/ d[j - 1] = NL) })

SameButDescription(s1, s2) ==
    /\ s1.title = s2.title /\ s1.imageUrl = s2.imageUrl /\ s1.symbolType = s2.symbolType

\* C15: within one step list, of two steps that differ only in the
\* description, the one with more key points never gets the smaller row.
C15_HeightMonotoneInKeyPoints ==
    exporter \in {GenA, GenC}
    => \A j, k \in 1..Len(rows) :
          ( /\ SameButDescription(validSteps[rows[j].step], validSteps[rows[k].step])
            /\ KeyPointCount(validSteps[rows[j].step].description)
                 <= KeyPointCount(validSteps[rows[k].step].description) )
          => rows[j].height <= rows[k].height

\* a finished work instruction with a six-key-point step and a four-key-point
\* step that differ in nothing else, the first with the strictly taller row
C15_Witness ==
    /\ exporter = GenA /\ pc = "done"
    /\ \E j, k \in 1..Len(rows) :
          /\ SameButDescription(validSteps[rows[j].step], validSteps[rows[k].step])
          /\ KeyPointCount(validSteps[rows[j].step].description) = 6
          /\ KeyPointCount(validSteps[rows[k].step].description) = 4
          /\ rows[j].height > rows[k].height

\* the height left for rows on a continuation page
UsablePageHeight(variant) == UsableBottom(variant) - ContinuedCursor(variant)

\* C16: a row taller than the usable height of a page that follows a shorter
\* row is preceded by a page break, is the first and only row of its page,
\* and the next step, if any, starts a new page.
C16_OversizeRowOwnPage ==
    exporter \in {GenA, GenC}
    => \A k \in 2..Len(rows) :
          ( /\ rows[k].height > UsablePageHeight(exporter)
            /\ rows[k - 1].height < rows[k].height )
          => /\ rows[k].page = rows[k - 1].page + 1
             /\ rows[k].top = ContinuedCursor(exporter)
             /\ \A j \in 1..Len(rows) : rows[j].page = rows[k].page => j = k
             /\ k < Len(rows) => rows[k + 1].page = rows[k].page + 1

\* a finished document whose middle row of three is taller than a page and
\* follows a shorter row
C16_Witness ==
    /\ exporter = GenA /\ pc = "done" /\ Len(rows) = 3
    /\ rows[2].height > UsablePageHeight(GenA)
    /\ rows[1].height < rows[2].height
    /\ rows[1].page = 1 /\ rows[2].page = 2 /\ rows[3].page = 3

\* the title with every character that is not a letter or a digit replaced
\* by '_' and every letter lowercased
NormalisedTitle(t) ==
    [j \in 1..Len(t) |->
        IF t[j] \in {"a", "b", "u", "x", "y", "0", "1", "2"} THEN t[j]
        ELSE IF t[j] = "A" THEN "a"
        ELSE IF t[j] = "B" THEN "b"
        ELSE "_"]

\* C17: on every export path the name of the saved file is the title with
\* the non-alphanumeric characters replaced and lowercased, followed by
\* '_sop.pdf' or '_SOP.pdf'; nothing else enters the name.
C17_FileNameFromTitle ==
    \A n \in 1..Len(saved) :
        \/ saved[n].filename = NormalisedTitle(saved[n].title) \o <<"_sop.pdf">>
        \/ saved[n].filename = NormalisedTitle(saved[n].title) \o <<"_SOP.pdf">>

\* the layout of a saved document: its pages and, per row, the step, the
\* page, the top offset, the height and the symbol
PageLayout(d) ==
    [ pages |-> d.pages,
      rows |-> [ k \in 1..Len(d.rows) |->
                  [ step |-> d.rows[k].step, page |-> d.rows[k].page,
                    top |-> d.rows[k].top, height |-> d.rows[k].height,
                    symbol |-> d.rows[k].symbol ] ] ]

\* C18: two runs of the same layout routine on the same metadata and steps
\* give identical page layouts, whatever the clock and the random numbers
\* were in each run and whatever the earlier run left behind.
C18_LayoutDeterministic ==
    \A m, n \in 1..Len(saved) :
        saved[m].by = saved[n].by => PageLayout(saved[m]) = PageLayout(saved[n])

\* the work instruction was exported twice over several pages, with a
\* different clock and different random reference numbers in the two runs
C18_Witness ==
    /\ Len(saved) = 2
    /\ saved[1].by = GenA /\ saved[2].by = GenA
    /\ saved[1].pages > 1
    /\ saved[1].formNr # saved[2].formNr
    /\ \E k \in 1..Len(saved[1].rows) : saved[1].rows[k].pic.ref # saved[2].rows[k].pic.ref

\* what a rendering shows per step besides the geometry: number, title, key
\* points, reason, obligatory marker and symbol, in row order
Shown(rws) ==
    [ k \in 1..Len(rws) |-> [cells |-> rws[k].cells, symbol |-> rws[k].symbol] ]

\* C19: the PDF export and the print view show the same steps in the same
\* order with the same numbering, symbol, key-point and reason text and
\* obligatory marker: what either one shows for a step list is what the
\* other one would show for it.
C19_PdfMatchesPrintView ==
    /\ (exporter = GenA /\ pc = "done")
       => Shown(rows) = [ k \in 1..Len(steps) |->
                            [cells |-> ViewCells(steps[k], k - 1),
                             symbol |-> GetStepSymbol(steps[k], k - 1)] ]
    /\ exporter = PdfView
       => Shown(rows) = [ k \in 1..Len(steps) |->
                            [cells |-> PdfCells(GenA, steps[k], k - 1),
                             symbol |-> IndexSymbol(k - 1)] ]

\* C20: in the concurrent variant the drawing commands do not depend on the
\* order in which the image fetches complete: whatever that order was, the
\* images are drawn in step order, each at the position of its step.
C20_CompletionOrderIrrelevant ==
    exporter = Cad2
    => /\ \A a, b \in 1..Len(images) : a < b => images[a].step < images[b].step
       /\ \A a \in 1..Len(images) : images[a].top = 100 + ((images[a].step - 1) * 50)

\* C21: an export only reads its input.  In every step of an export the
\* store is left as it is, and the page's metadata and step list are left as
\* they are; the only other value they take is the stored record itself, which
\* refreshAndExportPDF reads before it starts the export.
C21_ExportOnlyReads ==
    [][ (exporter # "idle" \/ exporter' # "idle") =>
          /\ store' = store
          /\ \/ metadata' = metadata /\ steps' = steps
             \/ /\ exporter = "idle"
                /\ \E d \in store : metadata' = d.metadata /\ steps' = d.steps ]_vars

\* an export of the refreshed record has finished (saved or failed) after its
\* filter dropped a step of the list it was handed
C21_Witness ==
    /\ route = ViewRefresh /\ pc \in {"done", "failed"}
    /\ Len(validSteps) < Len(steps)
    /\ \E d \in store : d.steps = steps /\ d.metadata = metadata

Range(list) == { list[k] : k \in 1..Len(list) }

\* C23: no step is lost by editing.  Every step of the loaded SOP is in the
\* list or in the edit form, whatever editStep, addStep and moveStep calls
\* were made.
C23_NoStepLostByEditing ==
    \A d \in store : \A k \in 1..Len(d.steps) :
        d.steps[k] \in Range(steps) \cup {currentStep}

\* C26: moveStep swaps the step at the index with its neighbour and nothing
\* else: the length stays, 'up' at index 0 and 'down' at the last index change
\* nothing, every other position keeps its step, and moving up and then down
\* from the new index gives the list back.
C26_MoveStepSwapsNeighbours ==
    \A index \in 0..(Len(steps) - 1), direction \in {"up", "down"} :
        LET moved == MoveStepList(steps, index, direction)
            newIndex == IF direction = "up" THEN index - 1 ELSE index + 1
            edge == \/ direction = "up" /\ index = 0
                    \/ direction = "down" /\ index = Len(steps) - 1
        IN /\ Len(moved) = Len(steps)
           /\ edge => moved = steps
           /\ ~edge =>
                 /\ moved[index + 1] = steps[newIndex + 1]
                 /\ moved[newIndex + 1] = steps[index + 1]
                 /\ \A k \in 1..Len(steps) :
                       k \notin {index + 1, newIndex + 1} => moved[k] = steps[k]
           /\ (direction = "up" /\ ~edge) =>
                 MoveStepList(moved, newIndex, "down") = steps

\* a list that moveStep has reordered: the second authored step is first
C26_Witness ==
    /\ Len(steps) = 3
    /\ steps[1].title = Numbered(2) /\ steps[2].title = Numbered(3)
    /\ steps[3].title = Numbered(1)

\* C24: the list page shows the loaded list minus the SOPs whose deletion
\* succeeded.  The store holds exactly the loaded SOPs that were not deleted,
\* so the displayed list is the store's content, newest first, after any
\* interleaving of deleteSOP calls; in particular a deleted SOP is not shown
\* again.
C24_ListIsLoadedMinusDeleted ==
    sops = SortNewestFirst(store)

\* C25: an upload changes only the picture of the step being authored.  When
\* an upload completes, the title and the description in the form are what
\* they were just before, so edits typed while it was in flight stay.
C25_UploadKeepsTyping ==
    [][ (uploading' # uploading /\ ~isUploading' /\ route' \in FormPages) =>
          /\ currentStep'.title = currentStep.title
          /\ currentStep'.description = currentStep.description ]_vars

\* C29: no camera stream runs while the camera view is closed or the page is
\* unmounted, also when Cancel comes before getUserMedia resolves.
C29_NoStreamWhenCameraClosed ==
    (~showCamera \/ route \notin FormPages) => tracks = {}

\* a record with a title, at least one step and a title on every step
WellFormedSop(meta, list) ==
    /\ meta.title # << >>
    /\ Len(list) >= 1
    /\ \A k \in 1..Len(list) : list[k].title # << >>

\* C27: every record written by saveSOP or updateSOP has a non-empty title,
\* at least one step and a non-empty title on every step; a call is handed to
\* the store only from a form that passes both tests, it leaves the step
\* list as it is, and isSaving is true exactly while a call is in flight.
C27_OnlyWellFormedSaved ==
    /\ [](\A d \in store : WellFormedSop(d.metadata, d.steps))
    /\ [](saving # Null => WellFormedSop(saving.metadata, saving.steps))
    /\ [](isSaving <=> saving # Null)
    /\ [][ (saving = Null /\ saving' # Null) =>
             /\ metadata.title # << >> /\ Len(steps) >= 1
             /\ steps' = steps ]_vars

\* a record written from the new-SOP page is in the store
C27_Witness ==
    /\ route = "/"
    /\ \E d \in store : Len(d.steps) = 2 /\ d.metadata.version = VersionOne
    /\ Len(steps) = 2

\* C28: cloning carries the SOP over to the new-SOP form.  The step that
\* stores a clone and opens /sop/new ends with the form holding the steps of
\* one of the listed SOPs, its title with ' (Copy)' appended, version 1.0 and
\* no approval date, and leaves the store and the list as they are.
C28_CloneFillsNewForm ==
    [][ (route = "/" /\ route' = "/sop/new" /\ sessionStorage' # sessionStorage) =>
          /\ \E k \in 1..Len(sops) :
                /\ steps' = sops[k].steps
                /\ metadata'.title = sops[k].metadata.title \o CopySuffix
                /\ sessionStorage' = CloneItem(sops[k])
          /\ metadata'.version = VersionOne
          /\ metadata'.approvalDate = << >>
          /\ store' = store /\ sops' = sops ]_vars

\* C30: every busy flag is cleared again.  isSaving, exportingPdf and
\* isUploading each lead to the flag being false; while isSaving is true no
\* other call is handed to the store, and while exportingPdf is true the
\* running export is not started over.
C30_BusyFlagsCleared ==
    /\ isSaving ~> ~isSaving
    /\ exportingPdf ~> ~exportingPdf
    /\ isUploading ~> ~isUploading
    /\ [][ isSaving => (saving' = saving \/ saving' = Null) ]_vars
    /\ [][ (exportingPdf /\ pc # "idle") => ~(pc # "loop" /\ pc' = "loop") ]_vars

\* an export from the view page has saved its document and the flag is clear
\* again
C30_Witness ==
    /\ route = ViewHandled /\ ~exportingPdf /\ Idle
    /\ Len(saved) = 1

====
